---- MODULE Spec2Model ----
(***************************************************************************)
(* Model of the wallet-service currency-rate query service.                *)
(*                                                                         *)
(* The four HTTP handlers of HttpService (availability list, ban          *)
(* mutation, current rate, timeline rate) are modelled as concurrent       *)
(* request workers.  Every call of a handler to a dependency (the redis    *)
(* cache, the currency_bans table, the rate provider, the forecast         *)
(* service) and every call of time.Now() is one atomic step; the handler's *)
(* local computation up to its next such call belongs to the same step.    *)
(***************************************************************************)
EXTENDS Integers, Sequences, FiniteSets, TLC

VARIABLES
    today,       \* the wall clock's calendar day (days since 1970-01-01)
    banRows,     \* table currency_bans: sequence of rows [currency, banned]
    lastBan,     \* history: flag of the last successful upsert, per code
    availCache,  \* redis key "available": <<>> or <<list>>
    rateCache,   \* redis hash "rate:collection": base -> <<>> or <<snapshot>>
    timeCache,   \* redis hash "time:collection": "base:second" -> <<>> or <<timeline>>
    req,         \* req[w]: the request worker w is handling, with its locals
    budget,      \* requests that may still be started
    codec        \* a CustomTime value on its way through the JSON codec

vars == <<today, banRows, lastBan, availCache, rateCache, timeCache, req, budget,
          codec>>

----------------------------------------------------------------------------
(* Bounds of the model *)

NumWorkers == 2

AvailRequests == 3

RateRequests == 2

TimelineRequests == 2

MixedRequests == 2

NumDays == 3

MaxRate == 1

MaxPredictions == 2

RaceRequests == 2

RaceDays == 2

LiveRequests == 1

CodecWindow == 20

MaxKeys == 2

Workers == 1..NumWorkers

\* The worker of the specifications that serve one request at a time.
Sequential == {1}

----------------------------------------------------------------------------
(* Calendar: time.Time values at midnight UTC as days since 1970-01-01 *)

DaysFromCivil(y, m, d) ==
    LET yy  == IF m <= 2 THEN y - 1 ELSE y
        era == yy \div 400
        yoe == yy - era * 400
        mp  == IF m > 2 THEN m - 3 ELSE m + 9
        doy == (153 * mp + 2) \div 5 + d - 1
        doe == yoe * 365 + yoe \div 4 - yoe \div 100 + doy
    IN  era * 146097 + doe - 719468

CivilFromDays(z) ==
    LET zz  == z + 719468
        era == zz \div 146097
        doe == zz - era * 146097
        yoe == (doe - doe \div 1460 + doe \div 36524 - doe \div 146096) \div 365
        doy == doe - (365 * yoe + yoe \div 4 - yoe \div 100)
        mp  == (5 * doy + 2) \div 153
        d   == doy - (153 * mp + 2) \div 5 + 1
        m   == IF mp < 10 THEN mp + 3 ELSE mp - 9
        y   == yoe + era * 400 + (IF m <= 2 THEN 1 ELSE 0)
    IN  [year |-> y, month |-> m, day |-> d]

\* time.Date(y, m, d, 0, 0, 0, 0, time.UTC) with m in 1..12: a day outside
\* the month is normalised into the neighbouring months.
GoDate(y, m, d) == DaysFromCivil(y, m, 1) + (d - 1)

FirstDay == DaysFromCivil(2023, 12, 31)

Days == FirstDay..(FirstDay + NumDays - 1)

IsLeap(y) == (y % 4 = 0 /\ y % 100 # 0) \/ y % 400 = 0

\* daysIn(month, year) of package time
DaysIn(m, y) ==
    IF m = 2 THEN (IF IsLeap(y) THEN 29 ELSE 28)
    ELSE IF m \in {4, 6, 9, 11} THEN 30 ELSE 31

----------------------------------------------------------------------------
(* Date texts: a text is a sequence of characters *)

DigitChars == <<"0", "1", "2", "3", "4", "5", "6", "7", "8", "9">>

IsDigit(c) == \E i \in 1..10 : DigitChars[i] = c

DigitValue(c) == (CHOOSE i \in 1..10 : DigitChars[i] = c) - 1

DigitChar(n) == DigitChars[n + 1]

\* time.Parse(CustomTimeLayout, text) with CustomTimeLayout = "2006-01-02":
\* four digits, '-', two digits, '-', two digits and nothing else, the month
\* and the day in range.  <<>> stands for the error, <<day>> for the time.
ParseCustomTimeLayout(text) ==
    IF \/ Len(text) # 10
       \/ text[5] # "-"
       \/ text[8] # "-"
       \/ \E i \in {1, 2, 3, 4, 6, 7, 9, 10} : ~IsDigit(text[i])
    THEN <<>>
    ELSE LET y == 1000 * DigitValue(text[1]) + 100 * DigitValue(text[2])
                  + 10 * DigitValue(text[3]) + DigitValue(text[4])
             m == 10 * DigitValue(text[6]) + DigitValue(text[7])
             d == 10 * DigitValue(text[9]) + DigitValue(text[10])
         IN  IF m < 1 \/ m > 12 \/ d < 1 \/ d > DaysIn(m, y) THEN <<>>
             ELSE <<DaysFromCivil(y, m, d)>>

\* t.Format(CustomTimeLayout), for a year of four digits
FormatCustomTimeLayout(t) ==
    LET c == CivilFromDays(t)
    IN  <<DigitChar(c.year \div 1000), DigitChar((c.year \div 100) % 10),
          DigitChar((c.year \div 10) % 10), DigitChar(c.year % 10), "-",
          DigitChar(c.month \div 10), DigitChar(c.month % 10), "-",
          DigitChar(c.day \div 10), DigitChar(c.day % 10)>>

\* Texts that are no date in the layout: a missing parameter, a day that the
\* month does not have, a month of one digit.
BadDateTexts ==
    {<<>>,
     <<"2", "0", "2", "3", "-", "0", "2", "-", "2", "9">>,
     <<"2", "0", "2", "4", "-", "1", "-", "0", "1">>}

\* The start and end parameters that requests carry.
DateTexts == {FormatCustomTimeLayout(d) : d \in Days} \cup BadDateTexts

----------------------------------------------------------------------------
(* CustomTime: a time.Time is [day, secs], the days since 1970-01-01 and the
   seconds of the day, in UTC *)

\* time.Time{}: January 1, year 1, 00:00:00 UTC
ZeroTime == [day |-> DaysFromCivil(1, 1, 1), secs |-> 0]

\* int64 arithmetic modulo 2^64, on four limbs of 16 bits, lowest first.
LimbBase == 2 ^ 16

ToLimbs(n) == <<n % LimbBase, (n \div LimbBase) % LimbBase, 0, 0>>

AddLimbs(x, y) ==
    LET s1 == x[1] + y[1]
        s2 == x[2] + y[2] + s1 \div LimbBase
        s3 == x[3] + y[3] + s2 \div LimbBase
        s4 == x[4] + y[4] + s3 \div LimbBase
    IN  <<s1 % LimbBase, s2 % LimbBase, s3 % LimbBase, s4 % LimbBase>>

NegLimbs(x) ==
    AddLimbs([i \in 1..4 |-> LimbBase - 1 - x[i]], ToLimbs(1))

\* x * k for a factor k below 2^15
MulLimbs(x, k) ==
    LET p1 == x[1] * k
        p2 == x[2] * k + p1 \div LimbBase
        p3 == x[3] * k + p2 \div LimbBase
        p4 == x[4] * k + p3 \div LimbBase
    IN  <<p1 % LimbBase, p2 % LimbBase, p3 % LimbBase, p4 % LimbBase>>

\* x * 10^9
MulBillion(x) == MulLimbs(MulLimbs(MulLimbs(x, 1000), 1000), 1000)

\* t.UnixNano(): (seconds since 1970) * 10^9 as an int64, wrapping around
\* outside the years 1678..2262.  The seconds are day * 86400 + secs and
\* 86400 = 128 * 675.
UnixNano(t) ==
    LET days == IF t.day >= 0 THEN ToLimbs(t.day) ELSE NegLimbs(ToLimbs(-t.day))
    IN  AddLimbs(MulBillion(MulLimbs(MulLimbs(days, 128), 675)),
                 MulBillion(ToLimbs(t.secs)))

\* var nilTime = (time.Time{}).UnixNano()
nilTime == UnixNano(ZeroTime)

Quote == "\""

NullText == <<"n", "u", "l", "l">>

Quoted(text) == <<Quote>> \o text \o <<Quote>>

\* strings.Trim(string(b), "\"")
TrimQuotes(b) ==
    LET kept == {i \in 1..Len(b) : b[i] # Quote}
    IN  IF kept = {} THEN <<>>
        ELSE SubSeq(b, CHOOSE i \in kept : \A j \in kept : i <= j,
                       CHOOSE i \in kept : \A j \in kept : j <= i)

TwoDigits(text, i) == 10 * DigitValue(text[i]) + DigitValue(text[i + 1])

\* time.Parse(time.RFC3339, text) for the texts of the model, which have the
\* zone Z and no fraction of a second: "2006-01-02T15:04:05Z".
ParseRFC3339(text) ==
    IF \/ Len(text) # 20
       \/ text[11] # "T" \/ text[14] # ":" \/ text[17] # ":" \/ text[20] # "Z"
       \/ \E i \in {12, 13, 15, 16, 18, 19} : ~IsDigit(text[i])
       \/ ParseCustomTimeLayout(SubSeq(text, 1, 10)) = <<>>
    THEN <<>>
    ELSE LET hh == TwoDigits(text, 12)
             mm == TwoDigits(text, 15)
             ss == TwoDigits(text, 18)
         IN  IF hh > 23 \/ mm > 59 \/ ss > 59 THEN <<>>
             ELSE <<[day |-> ParseCustomTimeLayout(SubSeq(text, 1, 10))[1],
                     secs |-> hh * 3600 + mm * 60 + ss]>>

\* t.Format(time.RFC3339) of a UTC time
FormatRFC3339(t) ==
    LET hh == t.secs \div 3600
        mm == (t.secs \div 60) % 60
        ss == t.secs % 60
    IN  FormatCustomTimeLayout(t.day)
        \o <<"T", DigitChar(hh \div 10), DigitChar(hh % 10), ":",
             DigitChar(mm \div 10), DigitChar(mm % 10), ":",
             DigitChar(ss \div 10), DigitChar(ss % 10), "Z">>

\* CustomTime.UnmarshalJSON: the error and the value left in ct.Time.
CustomTimeUnmarshalJSON(b) ==
    LET s == TrimQuotes(b)
    IN  IF s = NullText THEN [err |-> FALSE, time |-> ZeroTime]
        ELSE IF ParseCustomTimeLayout(s) # <<>>
             THEN [err |-> FALSE,
                   time |-> [day |-> ParseCustomTimeLayout(s)[1], secs |-> 0]]
        ELSE IF ParseRFC3339(s) # <<>>
             THEN [err |-> FALSE, time |-> ParseRFC3339(s)[1]]
        ELSE [err |-> TRUE, time |-> ZeroTime]

\* CustomTime.MarshalJSON
CustomTimeMarshalJSON(ct) ==
    IF UnixNano(ct) = nilTime THEN NullText
    ELSE Quoted(FormatCustomTimeLayout(ct.day))

\* CustomTime.IsSet
IsSet(ct) == UnixNano(ct) # nilTime

\* The dates the codec is given: the zero time's date and the day after it,
\* the days around the Unix epoch, a leap day of a century, the last day of
\* the layout, and a run of days across a leap day.
CodecDays ==
    {DaysFromCivil(1, 1, 1), DaysFromCivil(1, 1, 2), DaysFromCivil(1969, 12, 31),
     DaysFromCivil(1970, 1, 1), DaysFromCivil(2000, 2, 29),
     DaysFromCivil(9999, 12, 31)}
    \cup {DaysFromCivil(2024, 2, 20) + i : i \in 0..(CodecWindow - 1)}

\* The times of day of the RFC3339 texts.
CodecSeconds == {0, 10 * 3600 + 20 * 60 + 30, 23 * 3600 + 59 * 60 + 59}

\* The JSON tokens given to UnmarshalJSON.
CodecInputs ==
    {Quoted(FormatCustomTimeLayout(d)) : d \in CodecDays}
    \cup {Quoted(FormatRFC3339([day |-> d, secs |-> s])) :
            d \in {DaysFromCivil(1, 1, 1), DaysFromCivil(2024, 3, 5)},
            s \in CodecSeconds}
    \cup {Quoted(t) : t \in BadDateTexts}
    \cup {NullText, Quoted(NullText)}

\* No value in the codec.
CodecIdle ==
    [pc |-> "idle", input |-> <<>>, err |-> FALSE, time |-> ZeroTime,
     output |-> <<>>, isSet |-> FALSE, object |-> <<>>, rates |-> <<>>]

\* json.Unmarshal hands the token to ct.UnmarshalJSON.
Unmarshal ==
    /\ codec.pc = "input"
    /\ LET res == CustomTimeUnmarshalJSON(codec.input)
       IN  codec' = [codec EXCEPT !.pc = "parsed", !.err = res.err,
                                  !.time = res.time]
    /\ UNCHANGED <<today, banRows, lastBan, availCache, rateCache, timeCache,
                   req, budget>>

\* json.Marshal of a pointer to the value calls ct.MarshalJSON.
Marshal ==
    /\ codec.pc = "parsed"
    /\ codec' = [codec EXCEPT !.pc = "formatted",
                              !.output = CustomTimeMarshalJSON(codec.time)]
    /\ UNCHANGED <<today, banRows, lastBan, availCache, rateCache, timeCache,
                   req, budget>>

CheckIsSet ==
    /\ codec.pc = "formatted"
    /\ codec' = [codec EXCEPT !.pc = "checked", !.isSet = IsSet(codec.time)]
    /\ UNCHANGED <<today, banRows, lastBan, availCache, rateCache, timeCache,
                   req, budget>>

\* The days named by the keys of a JSON object of rates.
KeyDays == {DaysFromCivil(2024, 3, 5), DaysFromCivil(2024, 3, 6)}

\* The key texts: a day in the layout, a day with a time of day in RFC3339,
\* and a text that is neither.
KeyTexts ==
    {FormatCustomTimeLayout(d) : d \in KeyDays}
    \cup {FormatRFC3339([day |-> d, secs |-> s]) : d \in KeyDays, s \in CodecSeconds}
    \cup {<<"2", "0", "2", "4", "-", "1", "-", "0", "1">>}

\* The members of a JSON object {"key": value, ...} in the order of the text;
\* the value of the i-th member is i.
RatesObjects ==
    {[i \in 1..Len(f) |-> [key |-> Quoted(f[i]), value |-> i]] :
        f \in UNION {[1..n -> KeyTexts] : n \in 0..MaxKeys}}

\* m[k] = v on a Go map whose key type is CustomTime: two keys are the same
\* entry when the structs are equal, that is when the time.Time values are
\* (both are in UTC here, so when day and seconds of the day are equal).
MapAssign(m, k, v) ==
    [x \in DOMAIN m \cup {k} |-> IF x = k THEN v ELSE m[x]]

\* json.Unmarshal into a map[CustomTime]float64: the key of the next member
\* is given to CustomTime.UnmarshalJSON and the member is stored under the
\* value it leaves; a key that does not parse ends the decoding.
DecodeMember ==
    /\ codec.pc = "object"
    /\ codec.object # <<>>
    /\ LET member == Head(codec.object)
           res == CustomTimeUnmarshalJSON(member.key)
       IN  codec' = IF res.err
                    THEN [codec EXCEPT !.pc = "failed", !.err = TRUE]
                    ELSE [codec EXCEPT !.object = Tail(@),
                                       !.rates = MapAssign(@, res.time,
                                                           member.value)]
    /\ UNCHANGED <<today, banRows, lastBan, availCache, rateCache, timeCache,
                   req, budget>>

\* The closing brace of the object.
DecodeEnd ==
    /\ codec.pc = "object"
    /\ codec.object = <<>>
    /\ codec' = [codec EXCEPT !.pc = "decoded"]
    /\ UNCHANGED <<today, banRows, lastBan, availCache, rateCache, timeCache,
                   req, budget>>

----------------------------------------------------------------------------
(* Currency registry *)

Registry == {"EUR", "GBP", "USD"}

AllCodes == Registry \cup {"XXX"}

\* Go compares strings bytewise; the rank gives that order on the codes used.
CodeRank(c) ==
    CASE c = "EUR" -> 1
      [] c = "GBP" -> 2
      [] c = "USD" -> 3
      [] OTHER     -> 4

Range(s) == {s[i] : i \in 1..Len(s)}

\* The orders in which a Go map range may visit the registry.
RegistryOrders ==
    {s \in [1..Cardinality(Registry) -> Registry] : Range(s) = Registry}

----------------------------------------------------------------------------
(* Request workers *)

NoCalls ==
    [cacheGet |-> 0, cacheSet |-> 0, cacheDel |-> 0, dbQuery |-> 0,
     dbExec |-> 0, provider |-> 0, forecast |-> 0]

\* The context of a request, r.Context(): it is cancelled with the request and
\* has no deadline of its own.
RequestContext == [request |-> TRUE, timeout |-> "none"]

\* context.WithTimeout(parent, timeout): cancelled with the parent, and when
\* the timeout runs out.
WithTimeout(parent, timeout) == [parent EXCEPT !.timeout = timeout]

\* The context each handler gives to each of its dependency calls.
ContextOf(op, dep) ==
    CASE op = "avail" /\ dep \in {"cacheGet", "cacheSet"} ->
            WithTimeout(RequestContext, "CacheTimeout")
      [] op = "avail" /\ dep = "dbQuery" -> WithTimeout(RequestContext, "DBTimeout")
      [] op = "ban" /\ dep = "dbExec" -> WithTimeout(RequestContext, "DBTimeout")
      [] op = "ban" /\ dep = "cacheDel" -> WithTimeout(RequestContext, "CacheTimeout")
      [] op = "rate" /\ dep = "cacheGet" -> WithTimeout(RequestContext, "CacheTimeout")
      [] op = "rate" /\ dep = "provider" ->
            WithTimeout(RequestContext, "ExchangerAPITimeout")
      \* cacheCtx is made, and ctx is passed
      [] op = "rate" /\ dep = "cacheSet" -> RequestContext
      \* cacheCtx is made, and ctx is passed
      [] op = "timeline" /\ dep = "cacheGet" -> RequestContext
      [] op = "timeline" /\ dep = "provider" ->
            WithTimeout(RequestContext, "ExchangerAPITimeout")
      [] op = "timeline" /\ dep = "forecast" -> WithTimeout(RequestContext, "10m")
      [] op = "timeline" /\ dep = "cacheSet" ->
            WithTimeout(RequestContext, "CacheTimeout")

NoContexts == [dep \in DOMAIN NoCalls |-> <<>>]

\* A worker with no request.  The fields are the handler's parameters and
\* locals: base/second/banned/start/end the request, now the day that the
\* handler's first call of time.Now() returned, todayY/todayM/todayD the
\* year, month and day taken from three calls of time.Now(),
\* fetchFrom/fetchTo the dates put in the provider URL, cached the
\* value the cache read returned, stored the snapshot unmarshalled inside
\* GetCurrencyLastRate, fresh the value built from the authoritative source,
\* (for the current rate, the snapshot decoded from the provider's response),
\* written the argument of the cache write, calls the dependency calls made,
\* contexts the context given to each of them, log the text given to
\* log.Printf, status/err/body the HTTP response.
Idle ==
    [op |-> "idle", pc |-> "idle", base |-> "", second |-> "", banned |-> FALSE,
     start |-> <<>>, end |-> <<>>, now |-> 0, todayY |-> 0, todayM |-> 0,
     todayD |-> 0, fetchFrom |-> 0, fetchTo |-> 0,
     cached |-> <<>>, stored |-> <<>>, fresh |-> <<>>, written |-> <<>>,
     calls |-> NoCalls, contexts |-> NoContexts, log |-> "", status |-> 0,
     err |-> "", body |-> <<>>]

Called(r, dep) ==
    [r EXCEPT !.calls[dep] = @ + 1, !.contexts[dep] = <<ContextOf(r.op, dep)>>]

\* http.Error(w, msg, code); return
HttpError(r, code, msg) ==
    [r EXCEPT !.pc = "done", !.status = code, !.err = msg]

\* json.NewEncoder(w).Encode(v); w.WriteHeader(http.StatusOK); return
HttpOK(r, v) ==
    [r EXCEPT !.pc = "done", !.status = 200, !.body = v]

\* The handler panics (a nil pointer is dereferenced): the server recovers
\* the panic and closes the connection, and no response is written.
Panic(r) == [r EXCEPT !.pc = "panicked"]

\* The outcome of a dependency call: an error, or a value.
Failed == [err |-> TRUE, val |-> <<>>]

Returned(v) == [err |-> FALSE, val |-> v]

----------------------------------------------------------------------------
(* Redis cache: the availability list *)

\* Get "available": redis.Nil gives (nil, nil); a backend error or a payload
\* that does not unmarshal gives an error.
RedisGetAvailableCurrencies(entry, down) ==
    IF down THEN Failed ELSE Returned(entry)

\* Set "available" with a TTL of 24 hours.
RedisSetAvailableCurrencies(entry, list, down) ==
    IF down THEN [err |-> TRUE, entry |-> entry]
            ELSE [err |-> FALSE, entry |-> <<list>>]

\* Del "available": deleting nothing is reported as an error.
RedisCleanCacheForAvailableCurrencies(entry, down) ==
    IF down THEN [err |-> TRUE, entry |-> entry]
            ELSE [err |-> entry = <<>>, entry |-> <<>>]

----------------------------------------------------------------------------
(* Table currency_bans *)

HasRow(rows, c) == \E i \in 1..Len(rows) : rows[i].currency = c

\* The orders in which a query without ORDER BY may return the rows.
RowOrders(rows) ==
    {[i \in 1..Len(rows) |-> rows[p[i]]] :
        p \in {q \in [1..Len(rows) -> 1..Len(rows)] :
                 \A i \in 1..Len(rows) : \E j \in 1..Len(rows) : q[j] = i}}

\* select currency, banned from currency_bans where currency in (codes):
\* the results that the query may give, the order of the rows being the
\* database's choice.
SelectBans(rows, codes) ==
    LET In(row) == row.currency \in codes
    IN  RowOrders(SelectSeq(rows, In))

\* A faulty variant of UpsertBan: a plain insert, with no conflict clause.
InsertBan(rows, c, b) == Append(rows, [currency |-> c, banned |-> b])

\* A faulty variant of UpsertBan: the update has no where clause and sets the
\* flag of every row.
UpsertBanEveryRow(rows, c, b) ==
    IF HasRow(rows, c)
    THEN [i \in 1..Len(rows) |-> [rows[i] EXCEPT !.banned = b]]
    ELSE Append([i \in 1..Len(rows) |-> [rows[i] EXCEPT !.banned = b]],
                [currency |-> c, banned |-> b])

\* insert into currency_bans (currency, banned) values (c, b)
\* on conflict (currency) do update set banned = b
UpsertBan(rows, c, b) ==
    IF HasRow(rows, c)
    THEN [i \in 1..Len(rows) |->
            IF rows[i].currency = c THEN [rows[i] EXCEPT !.banned = b]
                                    ELSE rows[i]]
    ELSE Append(rows, [currency |-> c, banned |-> b])

----------------------------------------------------------------------------
(* GetAvailableCurrencies *)

\* cur2banMap[curr.Currency] = curr, for the rows in the order returned:
\* the last row of a currency is the one the map keeps.
Cur2BanMap(rows, c) ==
    LET last == CHOOSE i \in 1..Len(rows) :
                    /\ rows[i].currency = c
                    /\ \A j \in (i + 1)..Len(rows) : rows[j].currency # c
    IN  rows[last]

\* A faulty variant of BuildResult: a code with no row is reported banned.
BuildResultDefaultBanned(rows, order) ==
    [i \in 1..Len(order) |->
        IF HasRow(rows, order[i])
        THEN Cur2BanMap(rows, order[i])
        ELSE [currency |-> order[i], banned |-> TRUE]]

\* A faulty variant of BuildResult: only the codes that have a row are listed.
BuildResultRowsOnly(rows, order) ==
    LET Listed(c) == HasRow(rows, c)
        listed == SelectSeq(order, Listed)
    IN  [i \in 1..Len(listed) |-> Cur2BanMap(rows, listed[i])]

\* The list built by ranging over CodeToCurrency in the order given.
BuildResult(rows, order) ==
    [i \in 1..Len(order) |->
        IF HasRow(rows, order[i])
        THEN Cur2BanMap(rows, order[i])
        ELSE [currency |-> order[i], banned |-> FALSE]]

\* A faulty variant of Less: the ban flag is not compared.
LessByCodeOnly(si, sj) == CodeRank(si.currency) <= CodeRank(sj.currency)

\* The less function given to sort.SliceStable.
Less(si, sj) ==
    IF si.banned # sj.banned THEN si.banned
    ELSE CodeRank(si.currency) <= CodeRank(sj.currency)

Swap(s, i, j) == [s EXCEPT ![i] = s[j], ![j] = s[i]]

RECURSIVE SiftDown(_, _)
\* for j := i; j > a && less(j, j-1); j-- { swap(j, j-1) }
SiftDown(s, j) ==
    IF j > 1 /\ Less(s[j], s[j - 1]) THEN SiftDown(Swap(s, j, j - 1), j - 1)
    ELSE s

RECURSIVE InsertionSort(_, _)
InsertionSort(s, i) ==
    IF i > Len(s) THEN s ELSE InsertionSort(SiftDown(s, i), i + 1)

\* sort.SliceStable on a slice of at most 20 elements is one insertion sort.
SliceStable(s) == InsertionSort(s, 2)

\* A faulty variant of AvailAfterCacheGet: the cached list is not trusted and
\* the list is built again.
AvailAfterCacheGetRebuilt(r, res) ==
    IF res.err THEN HttpError(r, 500, "error in get available currencies")
    ELSE [r EXCEPT !.cached = res.val, !.pc = "dbQuery"]

AvailAfterCacheGet(r, res) ==
    IF res.err THEN HttpError(r, 500, "error in get available currencies")
    ELSE IF res.val # <<>> THEN HttpOK([r EXCEPT !.cached = res.val], res.val)
    ELSE [r EXCEPT !.pc = "dbQuery"]

AvailAfterSelect(r, res, order) ==
    IF res.err THEN HttpError(r, 500, "error in getting currency to ban data")
    ELSE [r EXCEPT !.fresh = <<SliceStable(BuildResult(res.val, order))>>,
                   !.pc = "cacheSet"]

AvailAfterCacheSet(r, err) ==
    HttpOK([r EXCEPT !.log = IF err THEN "error in save available currencies"
                                    ELSE @],
           r.fresh)

GetAvailableCurrenciesStart(w) ==
    /\ req[w].pc = "idle"
    /\ budget > 0
    /\ budget' = budget - 1
    /\ req' = [req EXCEPT ![w] = [Idle EXCEPT !.op = "avail", !.pc = "cacheGet"]]
    /\ UNCHANGED <<codec, today, banRows, lastBan, availCache, rateCache, timeCache>>

GetAvailableCurrenciesCacheGet(w) ==
    /\ req[w].op = "avail"
    /\ req[w].pc = "cacheGet"
    /\ \E down \in BOOLEAN :
          req' = [req EXCEPT ![w] =
                    AvailAfterCacheGet(Called(@, "cacheGet"),
                        RedisGetAvailableCurrencies(availCache, down))]
    /\ UNCHANGED <<codec, today, banRows, lastBan, availCache, rateCache, timeCache, budget>>

GetAvailableCurrenciesSelect(w) ==
    /\ req[w].op = "avail"
    /\ req[w].pc = "dbQuery"
    /\ \E down \in BOOLEAN, order \in RegistryOrders,
          curr2ban \in SelectBans(banRows, Registry) :
          req' = [req EXCEPT ![w] =
                    AvailAfterSelect(Called(@, "dbQuery"),
                        IF down THEN Failed ELSE Returned(curr2ban),
                        order)]
    /\ UNCHANGED <<codec, today, banRows, lastBan, availCache, rateCache, timeCache, budget>>

GetAvailableCurrenciesCacheSet(w) ==
    /\ req[w].op = "avail"
    /\ req[w].pc = "cacheSet"
    /\ \E down \in BOOLEAN :
          LET res == RedisSetAvailableCurrencies(availCache, req[w].fresh[1], down)
          IN  /\ availCache' = res.entry
              /\ req' = [req EXCEPT ![w] =
                    AvailAfterCacheSet(
                        [Called(@, "cacheSet") EXCEPT !.written = req[w].fresh],
                        res.err)]
    /\ UNCHANGED <<codec, today, banRows, lastBan, rateCache, timeCache, budget>>

\* The TTL of the key "available" runs out.
ExpireAvailableCurrencies ==
    /\ availCache # <<>>
    /\ availCache' = <<>>
    /\ UNCHANGED <<codec, today, banRows, lastBan, rateCache, timeCache, req, budget>>

----------------------------------------------------------------------------
(* ChangeCurrencyBanStatus *)

\* The request bodies: one that does not decode, and the decoded ones.
BanBodies ==
    {[decoded |-> FALSE, currency |-> "", banned |-> FALSE]}
    \cup {[decoded |-> TRUE, currency |-> c, banned |-> b] :
            c \in AllCodes, b \in BOOLEAN}

BanValidate(r, decoded) ==
    IF ~decoded THEN HttpError(r, 400, "error in unmarshalling request")
    ELSE IF r.base \notin Registry THEN HttpError(r, 400, "invalid currency")
    ELSE [r EXCEPT !.pc = "dbExec"]

\* A faulty variant of BanAfterExec: after a failed upsert the handler still
\* goes on to the invalidation.
BanAfterExecContinued(r, err) ==
    IF err THEN [r EXCEPT !.status = 500, !.err = "error in update currency status",
                          !.pc = "cacheDel"]
    ELSE [r EXCEPT !.pc = "cacheDel"]

\* A faulty variant of BanAfterExec: the mutation is acknowledged after the
\* upsert, with no invalidation.
BanAfterExecAcknowledged(r, err) ==
    IF err THEN HttpError(r, 500, "error in update currency status")
    ELSE HttpOK(r, <<>>)

\* A faulty variant of BanAfterExec: a failed upsert is logged and the
\* handler goes on to the invalidation.
BanAfterExecLogged(r, err) ==
    [r EXCEPT !.log = IF err THEN "error in update currency status" ELSE @,
              !.pc = "cacheDel"]

BanAfterExec(r, err) ==
    IF err THEN HttpError(r, 500, "error in update currency status")
    ELSE [r EXCEPT !.pc = "cacheDel"]

\* A faulty variant of BanAfterClean: a failed invalidation is surfaced.
BanAfterCleanSurfaced(r, err) ==
    IF err THEN HttpError([r EXCEPT !.log = "error in clean available currencies"],
                          500, "error in clean available currencies")
    ELSE HttpOK(r, <<>>)

BanAfterClean(r, err) ==
    HttpOK([r EXCEPT !.log = IF err THEN "error in clean available currencies"
                                    ELSE @],
           <<>>)

ChangeCurrencyBanStatusStart(w) ==
    /\ req[w].pc = "idle"
    /\ budget > 0
    /\ budget' = budget - 1
    /\ \E body \in BanBodies :
          req' = [req EXCEPT ![w] =
                    BanValidate([Idle EXCEPT !.op = "ban", !.base = body.currency,
                                             !.banned = body.banned],
                                body.decoded)]
    /\ UNCHANGED <<codec, today, banRows, lastBan, availCache, rateCache, timeCache>>

ChangeCurrencyBanStatusExec(w) ==
    /\ req[w].op = "ban"
    /\ req[w].pc = "dbExec"
    /\ \E down \in BOOLEAN :
          /\ banRows' = IF down THEN banRows
                        ELSE UpsertBan(banRows, req[w].base, req[w].banned)
          /\ lastBan' = IF down THEN lastBan
                        ELSE [lastBan EXCEPT ![req[w].base] = <<req[w].banned>>]
          /\ req' = [req EXCEPT ![w] = BanAfterExec(Called(@, "dbExec"), down)]
    /\ UNCHANGED <<codec, today, availCache, rateCache, timeCache, budget>>

ChangeCurrencyBanStatusClean(w) ==
    /\ req[w].op = "ban"
    /\ req[w].pc = "cacheDel"
    /\ \E down \in BOOLEAN :
          LET res == RedisCleanCacheForAvailableCurrencies(availCache, down)
          IN  /\ availCache' = res.entry
              /\ req' = [req EXCEPT ![w] =
                            BanAfterClean(Called(@, "cacheDel"), res.err)]
    /\ UNCHANGED <<codec, today, banRows, lastBan, rateCache, timeCache, budget>>

----------------------------------------------------------------------------
(* Rate snapshots and the provider *)

\* The target codes that requests ask for and provider responses carry.
Targets == {"EUR", "GBP"}

\* The base codes that requests ask for.
Bases == {"USD"}

\* The rates object of a provider response: the codes the provider chose to
\* return, each with a rate.
RateMaps == UNION {[D -> 1..MaxRate] : D \in SUBSET Targets}

\* The base the provider names in its response: the one that requests ask
\* for, or a text of its own (the field is a CurrencyCode, which unmarshals
\* from any string).
ProviderBases == {"USD", "XXX"}

\* The bases that may become a field of a redis hash.
CacheBases == Bases \cup ProviderBases

\* CurrencyRates values a response may decode to.
Snapshots ==
    {[base |-> b, rates |-> f, date |-> d] :
        b \in ProviderBases, f \in RateMaps, d \in Days}

\* What client.Do and the JSON decoding may give: a transport error, a body
\* that does not decode, or a decoded body with its success flag.  A body
\* with none of the fields base, rates and date leaves the embedded
\* *CurrencyRates nil: val is <<>> then.
SnapshotResponses ==
    {[kind |-> "transport", success |-> FALSE, val |-> <<>>],
     [kind |-> "undecodable", success |-> FALSE, val |-> <<>>],
     [kind |-> "body", success |-> FALSE, val |-> <<>>],
     [kind |-> "body", success |-> TRUE, val |-> <<>>]}
    \cup {[kind |-> "body", success |-> TRUE, val |-> <<s>>] : s \in Snapshots}

\* CurrencyRates.ToResultRate: indexing a Go map by a missing key gives 0.
ToResultRate(cr, currencyCode) ==
    [base |-> cr.base, second |-> currencyCode,
     rate |-> IF currencyCode \in DOMAIN cr.rates THEN cr.rates[currencyCode] ELSE 0,
     date |-> cr.date]

\* HGet "rate:collection" base: redis.Nil gives (nil, nil); else the stored
\* snapshot is unmarshalled and the pair projected out of it.
RedisGetCurrencyLastRate(hash, currencyCodeBase, currencyCodeSecond, down) ==
    IF down THEN [err |-> TRUE, val |-> <<>>, stored |-> <<>>]
    ELSE IF hash[currencyCodeBase] = <<>>
         THEN [err |-> FALSE, val |-> <<>>, stored |-> <<>>]
    ELSE [err |-> FALSE,
          val |-> <<ToResultRate(hash[currencyCodeBase][1], currencyCodeSecond)>>,
          stored |-> hash[currencyCodeBase]]

\* json.Marshal(currencyRates): the date is printed by CustomTime.MarshalJSON.
MarshalCurrencyRates(cr) ==
    [base |-> cr.base, rates |-> cr.rates,
     date |-> CustomTimeMarshalJSON([day |-> cr.date, secs |-> 0])]

\* json.Unmarshal(data, &result): the date is read by CustomTime.UnmarshalJSON.
UnmarshalCurrencyRates(data) ==
    [base |-> data.base, rates |-> data.rates,
     date |-> CustomTimeUnmarshalJSON(data.date).time.day]

\* The date of a snapshot after json.Marshal and json.Unmarshal, for each
\* day a snapshot of the model may carry; the base and the rates are a string
\* and numbers and come back as they went.
DateThroughJSON ==
    [d \in Days |->
        UnmarshalCurrencyRates(
            MarshalCurrencyRates([base |-> "", rates |-> <<>>, date |-> d])).date]

\* A faulty variant of RedisSetCurrencyLastRate: only one pair of the
\* snapshot is stored.
RedisSetCurrencyLastRateOnePair(hash, currencyRates, down) ==
    LET one == IF DOMAIN currencyRates.rates = {} THEN {}
               ELSE {CHOOSE c \in DOMAIN currencyRates.rates : TRUE}
        pair == [currencyRates EXCEPT !.rates = [c \in one |-> currencyRates.rates[c]]]
    IN  IF down THEN [err |-> TRUE, hash |-> hash]
        ELSE [err |-> hash[currencyRates.base] # <<>>,
              hash |-> [hash EXCEPT ![currencyRates.base] = <<pair>>]]

\* A faulty variant of RedisSetCurrencyLastRate: a write over an existing
\* field keeps the rates of the old snapshot for the targets that the new one
\* does not have.
RedisSetCurrencyLastRateMerged(hash, currencyRates, down) ==
    LET old    == hash[currencyRates.base]
        merged == IF old = <<>> THEN currencyRates.rates
                  ELSE [c \in DOMAIN currencyRates.rates \cup DOMAIN old[1].rates |->
                          IF c \in DOMAIN currencyRates.rates
                          THEN currencyRates.rates[c] ELSE old[1].rates[c]]
    IN  IF down THEN [err |-> TRUE, hash |-> hash]
        ELSE [err |-> old # <<>>,
              hash |-> [hash EXCEPT ![currencyRates.base] =
                          <<[currencyRates EXCEPT !.rates = merged,
                                                  !.date = DateThroughJSON[@]]>>]]

\* HSet "rate:collection" currencyRates.Base: redis counts the fields that
\* are new, and a count of 0 is reported as an error.  The hash of the model
\* holds, for each field, the value that its JSON text unmarshals to.
RedisSetCurrencyLastRate(hash, currencyRates, down) ==
    IF down THEN [err |-> TRUE, hash |-> hash]
    ELSE [err |-> hash[currencyRates.base] # <<>>,
          hash |-> [hash EXCEPT ![currencyRates.base] =
                      <<[currencyRates EXCEPT !.date = DateThroughJSON[@]]>>]]

----------------------------------------------------------------------------
(* GetCurrentCurrencyRate *)

\* The test on the cached rate's date r against time.Now() n.
CachedRateIsUsed(r, n) ==
    LET rd == CivilFromDays(r)
        nd == CivilFromDays(n)
    IN  \/ rd.year < nd.year
        \/ rd.year = nd.year /\ rd.month < nd.month
        \/ rd.year = nd.year /\ rd.month = nd.month /\ rd.day = nd.day

\* time.Date(todayY, todayM, todayD-1, 0, 0, 0, 0, time.UTC)
PreviousDay(todayY, todayM, todayD) == GoDate(todayY, todayM, todayD - 1)

RateValidate(r) ==
    IF r.base \notin Registry THEN HttpError(r, 400, "invalid base currency code")
    ELSE IF r.second \notin Registry
         THEN HttpError(r, 400, "invalid second currency code")
    ELSE [r EXCEPT !.pc = "cacheGet"]

\* The handler's first call of time.Now(), which returns the day n.
FirstNow(r, n) == IF r.now = 0 THEN n ELSE r.now

\* time.Now().Year(), the first of the three calls that give today's date,
\* on the day n.
TodayY(r, n) ==
    [r EXCEPT !.now = FirstNow(r, n), !.todayY = CivilFromDays(n).year,
              !.pc = "todayM"]

\* time.Now().Month(), the second of the three calls, on the day n.
TodayM(r, n) == [r EXCEPT !.todayM = CivilFromDays(n).month, !.pc = "todayD"]

\* time.Now().Day(), the third of the three calls, on the day n, and
\* previousDay.
RateTodayD(r, n) ==
    LET r1 == [r EXCEPT !.todayD = CivilFromDays(n).day]
    IN  [r1 EXCEPT !.fetchTo = PreviousDay(r1.todayY, r1.todayM, r1.todayD),
                   !.pc = "provider"]

\* nYear, nMonth, nDay := time.Now().Date(), on the day n, and the test of
\* the cached rate's date.
RateAfterNow(r, n) ==
    LET r1 == [r EXCEPT !.now = FirstNow(r, n)]
    IN  IF CachedRateIsUsed(r.cached[1].date, n) THEN HttpOK(r1, r.cached)
        ELSE [r1 EXCEPT !.pc = "todayY"]

RateAfterCacheGet(r, res) ==
    IF res.err THEN HttpError(r, 500, "error in get currency rate")
    ELSE [r EXCEPT !.cached = res.val, !.stored = res.stored,
                   !.pc = IF res.val # <<>> THEN "now" ELSE "todayY"]

\* A faulty variant of RateAfterFetch: after a transport error the request is
\* sent again, up to two more times.
RateAfterFetchRetried(r, resp) ==
    IF resp.kind = "transport" /\ r.calls.provider < 3 THEN r
    ELSE IF resp.kind = "transport" THEN HttpError(r, 500, "error in get new data")
    ELSE IF resp.kind = "undecodable"
         THEN HttpError(r, 500, "internal error in read JSON data")
    ELSE IF ~resp.success THEN HttpError(r, 500, "unsuccessful getting new rates")
    ELSE IF resp.val = <<>> THEN Panic(r)
    ELSE IF r.second \notin DOMAIN resp.val[1].rates
         THEN HttpError([r EXCEPT !.fresh = resp.val], 400, "cannot find rate")
    ELSE [r EXCEPT !.fresh = resp.val, !.pc = "cacheSet"]

\* updatedCurrencyRates.Rates is a field of the embedded pointer: reading it
\* through a nil pointer panics.
RateAfterFetch(r, resp) ==
    IF resp.kind = "transport" THEN HttpError(r, 500, "error in get new data")
    ELSE IF resp.kind = "undecodable"
         THEN HttpError(r, 500, "internal error in read JSON data")
    ELSE IF ~resp.success THEN HttpError(r, 500, "unsuccessful getting new rates")
    ELSE IF resp.val = <<>> THEN Panic(r)
    ELSE IF r.second \notin DOMAIN resp.val[1].rates
         THEN HttpError([r EXCEPT !.fresh = resp.val], 400, "cannot find rate")
    ELSE [r EXCEPT !.fresh = resp.val, !.pc = "cacheSet"]

\* A faulty variant of RateAfterCacheSet: a failed write is surfaced.
RateAfterCacheSetSurfaced(r, err) ==
    IF err THEN HttpError([r EXCEPT !.log = "error in save new rate"],
                          500, "error in save new rate")
    ELSE HttpOK(r, <<ToResultRate(r.fresh[1], r.second)>>)

RateAfterCacheSet(r, err) ==
    HttpOK([r EXCEPT !.log = IF err THEN "error in save new rate" ELSE @],
           <<ToResultRate(r.fresh[1], r.second)>>)

GetCurrentCurrencyRateStart(w) ==
    /\ req[w].pc = "idle"
    /\ budget > 0
    /\ budget' = budget - 1
    /\ \E b \in Bases \cup {"XXX"}, s \in Targets \cup {"XXX"} :
          req' = [req EXCEPT ![w] =
                    RateValidate([Idle EXCEPT !.op = "rate", !.base = b, !.second = s])]
    /\ UNCHANGED <<codec, today, banRows, lastBan, availCache, rateCache, timeCache>>

GetCurrentCurrencyRateCacheGet(w) ==
    /\ req[w].op = "rate"
    /\ req[w].pc = "cacheGet"
    /\ \E down \in BOOLEAN :
          LET res == RedisGetCurrencyLastRate(rateCache, req[w].base,
                                              req[w].second, down)
          IN  req' = [req EXCEPT ![w] =
                        RateAfterCacheGet(Called(@, "cacheGet"), res)]
    /\ UNCHANGED <<codec, today, banRows, lastBan, availCache, rateCache, timeCache, budget>>

GetCurrentCurrencyRateNow(w) ==
    /\ req[w].op = "rate"
    /\ req[w].pc = "now"
    /\ req' = [req EXCEPT ![w] = RateAfterNow(@, today)]
    /\ UNCHANGED <<codec, today, banRows, lastBan, availCache, rateCache, timeCache, budget>>

GetCurrentCurrencyRateTodayY(w) ==
    /\ req[w].op = "rate"
    /\ req[w].pc = "todayY"
    /\ req' = [req EXCEPT ![w] = TodayY(@, today)]
    /\ UNCHANGED <<codec, today, banRows, lastBan, availCache, rateCache, timeCache, budget>>

GetCurrentCurrencyRateTodayM(w) ==
    /\ req[w].op = "rate"
    /\ req[w].pc = "todayM"
    /\ req' = [req EXCEPT ![w] = TodayM(@, today)]
    /\ UNCHANGED <<codec, today, banRows, lastBan, availCache, rateCache, timeCache, budget>>

GetCurrentCurrencyRateTodayD(w) ==
    /\ req[w].op = "rate"
    /\ req[w].pc = "todayD"
    /\ req' = [req EXCEPT ![w] = RateTodayD(@, today)]
    /\ UNCHANGED <<codec, today, banRows, lastBan, availCache, rateCache, timeCache, budget>>

GetCurrentCurrencyRateFetch(w) ==
    /\ req[w].op = "rate"
    /\ req[w].pc = "provider"
    /\ \E resp \in SnapshotResponses :
          req' = [req EXCEPT ![w] = RateAfterFetch(Called(@, "provider"), resp)]
    /\ UNCHANGED <<codec, today, banRows, lastBan, availCache, rateCache, timeCache, budget>>

GetCurrentCurrencyRateCacheSet(w) ==
    /\ req[w].op = "rate"
    /\ req[w].pc = "cacheSet"
    /\ \E down \in BOOLEAN :
          LET res == RedisSetCurrencyLastRate(rateCache, req[w].fresh[1], down)
          IN  /\ rateCache' = res.hash
              /\ req' = [req EXCEPT ![w] =
                    RateAfterCacheSet(
                        [Called(@, "cacheSet") EXCEPT !.written = req[w].fresh],
                        res.err)]
    /\ UNCHANGED <<codec, today, banRows, lastBan, availCache, timeCache, budget>>

----------------------------------------------------------------------------
(* Timelines, the provider's time series and the forecast service *)

\* The rates object of a timeseries response: for every day it names, the
\* rates of the codes the provider chose to return for that day.  The
\* responses drawn name every day of Days, and leave the requested symbol
\* out on at most one of them.
SeriesFor(symbol) ==
    {[d \in Days |-> [c \in (IF d = hole THEN {} ELSE {symbol}) |-> v]] :
        hole \in {0} \cup Days, v \in 1..MaxRate}

\* CurrencyTimelineRates values a response to the given request may decode to.
TimelineBodies(r) ==
    {[base |-> b, rates |-> f, startDate |-> r.fetchFrom, endDate |-> r.fetchTo] :
        b \in ProviderBases, f \in SeriesFor(r.second)}

TimelineResponses(r) ==
    {[kind |-> "transport", success |-> FALSE, val |-> <<>>],
     [kind |-> "undecodable", success |-> FALSE, val |-> <<>>],
     [kind |-> "body", success |-> FALSE, val |-> <<>>],
     [kind |-> "body", success |-> TRUE, val |-> <<>>]}
    \cup {[kind |-> "body", success |-> TRUE, val |-> <<t>>] : t \in TimelineBodies(r)}

\* What the forecast call may give: a transport error, a body that is no
\* array of numbers, or the predicted values in order.
PredictionLists ==
    UNION {[1..k -> 1..MaxRate] : k \in 0..MaxPredictions}

ForecastResponses ==
    {[kind |-> "transport", val |-> <<>>], [kind |-> "undecodable", val |-> <<>>]}
    \cup {[kind |-> "body", val |-> p] : p \in PredictionLists}

\* rate[currencyCode] for one day's rates: 0 when the code is missing.
RateOn(dayRates, currencyCode) ==
    IF currencyCode \in DOMAIN dayRates THEN dayRates[currencyCode] ELSE 0

\* CurrencyTimelineRates.ToResultTimelineRates
ToResultTimelineRates(cr, currencyCode) ==
    [base |-> cr.base, second |-> currencyCode,
     rates |-> [d \in DOMAIN cr.rates |-> RateOn(cr.rates[d], currencyCode)],
     predictions |-> <<>>,
     startDate |-> cr.startDate, endDate |-> cr.endDate]

\* HGet "time:collection" "base:second"
RedisGetTimestampRate(hash, currencyCodeBase, currencyCodeSecond, down) ==
    IF down THEN Failed
    ELSE Returned(hash[<<currencyCodeBase, currencyCodeSecond>>])

\* A faulty variant of RedisSaveTimestampRate: a write over an existing entry
\* keeps the predictions of the old entry.
RedisSaveTimestampRateMerged(hash, rate, down) ==
    LET key == <<rate.base, rate.second>>
    IN  IF down THEN [err |-> TRUE, hash |-> hash]
        ELSE IF hash[key] = <<>>
             THEN [err |-> FALSE, hash |-> [hash EXCEPT ![key] = <<rate>>]]
        ELSE [err |-> TRUE,
              hash |-> [hash EXCEPT ![key] =
                          <<[rate EXCEPT !.predictions = hash[key][1].predictions]>>]]

\* HSet "time:collection" "rate.Base:rate.Second": a count of 0 new fields
\* is reported as an error.
RedisSaveTimestampRate(hash, rate, down) ==
    IF down THEN [err |-> TRUE, hash |-> hash]
    ELSE [err |-> hash[<<rate.base, rate.second>>] # <<>>,
          hash |-> [hash EXCEPT ![<<rate.base, rate.second>>] = <<rate>>]]

----------------------------------------------------------------------------
(* GetTimelineCurrencyRate *)

\* time.Date(todayY-1, todayM, todayD, 0, 0, 0, 0, time.UTC)
PreviousYear(todayY, todayM, todayD) == GoDate(todayY - 1, todayM, todayD)

\* predictions[time.Date(todayY, todayM, todayD+i, ...)] = rate, i = 0, 1, ...
Predictions(todayY, todayM, todayD, predictedRates) ==
    LET At(i) == GoDate(todayY, todayM, todayD + i)
    IN  [d \in {At(i - 1) : i \in 1..Len(predictedRates)} |->
            predictedRates[(CHOOSE i \in 1..Len(predictedRates) : At(i - 1) = d)]]

\* t.Equal(startDate) || t.After(startDate) && t.Before(endDate)
InPeriod(t, startDate, endDate) ==
    t = startDate \/ (t > startDate /\ t < endDate)

\* The response built from currencyRate and the parsed period.
TimelineResult(currencyRate, startDate, endDate) ==
    [base |-> currencyRate.base, second |-> currencyRate.second,
     rates |-> [t \in {d \in DOMAIN currencyRate.rates :
                            InPeriod(d, startDate, endDate)} |->
                    currencyRate.rates[t]],
     predictions |-> currencyRate.predictions,
     startDate |-> startDate, endDate |-> endDate]

TimelineRespond(r, currencyRate) ==
    HttpOK(r, <<TimelineResult(currencyRate, r.start[1], r.end[1])>>)

\* A faulty variant of TimelineValidate: an end that does not parse is let
\* through.
TimelineValidateEndUnchecked(r, startText, endText) ==
    IF r.base \notin Registry THEN HttpError(r, 400, "invalid base currency code")
    ELSE IF r.second \notin Registry
         THEN HttpError(r, 400, "invalid second currency code")
    ELSE IF ParseCustomTimeLayout(startText) = <<>>
         THEN HttpError(r, 400, "invalid start period date")
    ELSE [r EXCEPT !.start = ParseCustomTimeLayout(startText),
                   !.end = ParseCustomTimeLayout(endText),
                   !.pc = "cacheGet"]

\* A faulty variant of TimelineValidate: the second code is not looked up.
TimelineValidateSecondUnchecked(r, startText, endText) ==
    IF r.base \notin Registry THEN HttpError(r, 400, "invalid base currency code")
    ELSE IF ParseCustomTimeLayout(startText) = <<>>
         THEN HttpError(r, 400, "invalid start period date")
    ELSE IF ParseCustomTimeLayout(endText) = <<>>
         THEN HttpError([r EXCEPT !.start = ParseCustomTimeLayout(startText)],
                        400, "invalid end period date")
    ELSE [r EXCEPT !.start = ParseCustomTimeLayout(startText),
                   !.end = ParseCustomTimeLayout(endText),
                   !.pc = "cacheGet"]

TimelineValidate(r, startText, endText) ==
    IF r.base \notin Registry THEN HttpError(r, 400, "invalid base currency code")
    ELSE IF r.second \notin Registry
         THEN HttpError(r, 400, "invalid second currency code")
    ELSE IF ParseCustomTimeLayout(startText) = <<>>
         THEN HttpError(r, 400, "invalid start period date")
    ELSE IF ParseCustomTimeLayout(endText) = <<>>
         THEN HttpError([r EXCEPT !.start = ParseCustomTimeLayout(startText)],
                        400, "invalid end period date")
    ELSE [r EXCEPT !.start = ParseCustomTimeLayout(startText),
                   !.end = ParseCustomTimeLayout(endText),
                   !.pc = "cacheGet"]

\* A faulty variant of TimelineTodayD: the provider is asked for the caller's
\* period, as the handler without a cache does.
TimelineTodayDCallerPeriod(r, n) ==
    [r EXCEPT !.todayD = CivilFromDays(n).day, !.fetchFrom = r.start[1],
              !.fetchTo = r.end[1], !.pc = "provider"]

\* time.Now().Day(), the third of the three calls, on the day n, and
\* previousDay and previousYear.
TimelineTodayD(r, n) ==
    LET r1 == [r EXCEPT !.todayD = CivilFromDays(n).day]
    IN  [r1 EXCEPT !.fetchFrom = PreviousYear(r1.todayY, r1.todayM, r1.todayD),
                   !.fetchTo = PreviousDay(r1.todayY, r1.todayM, r1.todayD),
                   !.pc = "provider"]

\* A faulty variant of TimelineAfterCacheGet: a cached timeline is not used.
TimelineAfterCacheGetAlwaysFetch(r, res) ==
    IF res.err THEN HttpError(r, 500, "error in get timestamp rate from cache")
    ELSE [r EXCEPT !.cached = res.val, !.pc = "todayY"]

\* A faulty variant of TimelineAfterCacheGet: a failed read is taken as a miss.
TimelineAfterCacheGetErrorAsMiss(r, res) ==
    IF ~res.err /\ res.val # <<>>
    THEN TimelineRespond([r EXCEPT !.cached = res.val], res.val[1])
    ELSE [r EXCEPT !.pc = "todayY"]

TimelineAfterCacheGet(r, res) ==
    IF res.err THEN HttpError(r, 500, "error in get timestamp rate from cache")
    ELSE IF res.val # <<>>
         THEN TimelineRespond([r EXCEPT !.cached = res.val], res.val[1])
    ELSE [r EXCEPT !.pc = "todayY"]

\* ToResultTimelineRates has a value receiver: calling it through the nil
\* embedded pointer panics.
TimelineAfterFetch(r, resp) ==
    IF resp.kind = "transport" THEN HttpError(r, 500, "error in get new data")
    ELSE IF resp.kind = "undecodable"
         THEN HttpError(r, 500, "internal error in read JSON data")
    ELSE IF ~resp.success THEN HttpError(r, 500, "unsuccessful getting new rates")
    ELSE IF resp.val = <<>> THEN Panic(r)
    ELSE [r EXCEPT !.fresh = <<ToResultTimelineRates(resp.val[1], r.second)>>,
                   !.pc = "forecast"]

\* A faulty variant of TimelineAfterPredict: a failed forecast is logged and
\* the timeline goes on without predictions.
TimelineAfterPredictSkipped(r, resp) ==
    IF resp.kind # "body"
    THEN [r EXCEPT !.log = "error in get predictions", !.pc = "cacheSet"]
    ELSE [r EXCEPT !.fresh[1].predictions =
                        Predictions(r.todayY, r.todayM, r.todayD, resp.val),
                   !.pc = "cacheSet"]

TimelineAfterPredict(r, resp) ==
    IF resp.kind = "transport" THEN HttpError(r, 500, "error in get predictions")
    ELSE IF resp.kind = "undecodable"
         THEN HttpError(r, 500, "error in reading predictor response")
    ELSE [r EXCEPT !.fresh[1].predictions =
                        Predictions(r.todayY, r.todayM, r.todayD, resp.val),
                   !.pc = "cacheSet"]

TimelineAfterCacheSet(r, err) ==
    TimelineRespond(
        [r EXCEPT !.log = IF err THEN "error in save timestamp rate" ELSE @],
        r.fresh[1])

GetTimelineCurrencyRateStart(w) ==
    /\ req[w].pc = "idle"
    /\ budget > 0
    /\ budget' = budget - 1
    /\ \E b \in Bases \cup {"XXX"}, s \in Targets \cup {"XXX"},
          st \in DateTexts, en \in DateTexts :
          req' = [req EXCEPT ![w] =
                    TimelineValidate(
                        [Idle EXCEPT !.op = "timeline", !.base = b, !.second = s],
                        st, en)]
    /\ UNCHANGED <<codec, today, banRows, lastBan, availCache, rateCache, timeCache>>

GetTimelineCurrencyRateCacheGet(w) ==
    /\ req[w].op = "timeline"
    /\ req[w].pc = "cacheGet"
    /\ \E down \in BOOLEAN :
          LET res == RedisGetTimestampRate(timeCache, req[w].base,
                                           req[w].second, down)
          IN  req' = [req EXCEPT ![w] =
                        TimelineAfterCacheGet(Called(@, "cacheGet"), res)]
    /\ UNCHANGED <<codec, today, banRows, lastBan, availCache, rateCache, timeCache, budget>>

GetTimelineCurrencyRateTodayY(w) ==
    /\ req[w].op = "timeline"
    /\ req[w].pc = "todayY"
    /\ req' = [req EXCEPT ![w] = TodayY(@, today)]
    /\ UNCHANGED <<codec, today, banRows, lastBan, availCache, rateCache, timeCache, budget>>

GetTimelineCurrencyRateTodayM(w) ==
    /\ req[w].op = "timeline"
    /\ req[w].pc = "todayM"
    /\ req' = [req EXCEPT ![w] = TodayM(@, today)]
    /\ UNCHANGED <<codec, today, banRows, lastBan, availCache, rateCache, timeCache, budget>>

GetTimelineCurrencyRateTodayD(w) ==
    /\ req[w].op = "timeline"
    /\ req[w].pc = "todayD"
    /\ req' = [req EXCEPT ![w] = TimelineTodayD(@, today)]
    /\ UNCHANGED <<codec, today, banRows, lastBan, availCache, rateCache, timeCache, budget>>

GetTimelineCurrencyRateFetch(w) ==
    /\ req[w].op = "timeline"
    /\ req[w].pc = "provider"
    /\ \E resp \in TimelineResponses(req[w]) :
          req' = [req EXCEPT ![w] = TimelineAfterFetch(Called(@, "provider"), resp)]
    /\ UNCHANGED <<codec, today, banRows, lastBan, availCache, rateCache, timeCache, budget>>

GetTimelineCurrencyRatePredict(w) ==
    /\ req[w].op = "timeline"
    /\ req[w].pc = "forecast"
    /\ \E resp \in ForecastResponses :
          req' = [req EXCEPT ![w] = TimelineAfterPredict(Called(@, "forecast"), resp)]
    /\ UNCHANGED <<codec, today, banRows, lastBan, availCache, rateCache, timeCache, budget>>

GetTimelineCurrencyRateCacheSet(w) ==
    /\ req[w].op = "timeline"
    /\ req[w].pc = "cacheSet"
    /\ \E down \in BOOLEAN :
          LET res == RedisSaveTimestampRate(timeCache, req[w].fresh[1], down)
          IN  /\ timeCache' = res.hash
              /\ req' = [req EXCEPT ![w] =
                    TimelineAfterCacheSet(
                        [Called(@, "cacheSet") EXCEPT !.written = req[w].fresh],
                        res.err)]
    /\ UNCHANGED <<codec, today, banRows, lastBan, availCache, rateCache, budget>>

----------------------------------------------------------------------------
(* The response has been sent, or the handler has panicked and the
   connection is closed: the worker takes the next request. *)

Finish(w) ==
    /\ req[w].pc \in {"done", "panicked"}
    /\ req' = [req EXCEPT ![w] = Idle]
    /\ UNCHANGED <<codec, today, banRows, lastBan, availCache, rateCache, timeCache, budget>>

\* Midnight passes.
Tick ==
    /\ today + 1 \in Days
    /\ today' = today + 1
    /\ UNCHANGED <<codec, banRows, lastBan, availCache, rateCache, timeCache, req, budget>>

----------------------------------------------------------------------------
(* Specifications *)

InitState(n) ==
    /\ today = FirstDay
    /\ banRows = <<>>
    /\ lastBan = [c \in Registry |-> <<>>]
    /\ availCache = <<>>
    /\ rateCache = [c \in CacheBases |-> <<>>]
    /\ timeCache = [k \in CacheBases \X Targets |-> <<>>]
    /\ req = [w \in Workers |-> Idle]
    /\ budget = n
    /\ codec = CodecIdle

InitAvail == InitState(AvailRequests)

NextAvail ==
    \/ \E w \in Workers :
          \/ GetAvailableCurrenciesStart(w)
          \/ GetAvailableCurrenciesCacheGet(w)
          \/ GetAvailableCurrenciesSelect(w)
          \/ GetAvailableCurrenciesCacheSet(w)
          \/ ChangeCurrencyBanStatusStart(w)
          \/ ChangeCurrencyBanStatusExec(w)
          \/ ChangeCurrencyBanStatusClean(w)
          \/ Finish(w)
    \/ ExpireAvailableCurrencies

\* The availability and ban flows alone.
SpecAvail == InitAvail /\ [][NextAvail]_vars

InitRate == InitState(RateRequests)

NextRate ==
    \/ \E w \in Workers :
          \/ GetCurrentCurrencyRateStart(w)
          \/ GetCurrentCurrencyRateCacheGet(w)
          \/ GetCurrentCurrencyRateNow(w)
          \/ GetCurrentCurrencyRateTodayY(w)
          \/ GetCurrentCurrencyRateTodayM(w)
          \/ GetCurrentCurrencyRateTodayD(w)
          \/ GetCurrentCurrencyRateFetch(w)
          \/ GetCurrentCurrencyRateCacheSet(w)
          \/ Finish(w)
    \/ Tick

\* The current-rate flow alone, with the clock.
SpecRate == InitRate /\ [][NextRate]_vars

InitTimeline == InitState(TimelineRequests)

NextTimeline ==
    \/ \E w \in Sequential :
          \/ GetTimelineCurrencyRateStart(w)
          \/ GetTimelineCurrencyRateCacheGet(w)
          \/ GetTimelineCurrencyRateTodayY(w)
          \/ GetTimelineCurrencyRateTodayM(w)
          \/ GetTimelineCurrencyRateTodayD(w)
          \/ GetTimelineCurrencyRateFetch(w)
          \/ GetTimelineCurrencyRatePredict(w)
          \/ GetTimelineCurrencyRateCacheSet(w)
          \/ Finish(w)
    \/ Tick

\* The timeline flow alone, with the clock.
SpecTimeline == InitTimeline /\ [][NextTimeline]_vars

Init == InitState(MixedRequests)

Next ==
    \/ \E w \in Sequential :
          \/ GetAvailableCurrenciesStart(w)
          \/ GetAvailableCurrenciesCacheGet(w)
          \/ GetAvailableCurrenciesSelect(w)
          \/ GetAvailableCurrenciesCacheSet(w)
          \/ ChangeCurrencyBanStatusStart(w)
          \/ ChangeCurrencyBanStatusExec(w)
          \/ ChangeCurrencyBanStatusClean(w)
          \/ GetCurrentCurrencyRateStart(w)
          \/ GetCurrentCurrencyRateCacheGet(w)
          \/ GetCurrentCurrencyRateNow(w)
          \/ GetCurrentCurrencyRateTodayY(w)
          \/ GetCurrentCurrencyRateTodayM(w)
          \/ GetCurrentCurrencyRateTodayD(w)
          \/ GetCurrentCurrencyRateFetch(w)
          \/ GetCurrentCurrencyRateCacheSet(w)
          \/ GetTimelineCurrencyRateStart(w)
          \/ GetTimelineCurrencyRateCacheGet(w)
          \/ GetTimelineCurrencyRateTodayY(w)
          \/ GetTimelineCurrencyRateTodayM(w)
          \/ GetTimelineCurrencyRateTodayD(w)
          \/ GetTimelineCurrencyRateFetch(w)
          \/ GetTimelineCurrencyRatePredict(w)
          \/ GetTimelineCurrencyRateCacheSet(w)
          \/ Finish(w)
    \/ ExpireAvailableCurrencies
    \/ Tick

\* The four flows together.
Spec == Init /\ [][Next]_vars

\* Concurrent requests for one key: every worker asks for the current rate
\* of the same base or for the timeline of the same pair over the same period.
GetCurrentCurrencyRateStartSameBase(w) ==
    /\ req[w].pc = "idle"
    /\ budget > 0
    /\ budget' = budget - 1
    /\ \E s \in Targets :
          req' = [req EXCEPT ![w] =
                    RateValidate([Idle EXCEPT !.op = "rate", !.base = "USD",
                                              !.second = s])]
    /\ UNCHANGED <<codec, today, banRows, lastBan, availCache, rateCache, timeCache>>

GetTimelineCurrencyRateStartSamePair(w) ==
    /\ req[w].pc = "idle"
    /\ budget > 0
    /\ budget' = budget - 1
    /\ req' = [req EXCEPT ![w] =
                TimelineValidate(
                    [Idle EXCEPT !.op = "timeline", !.base = "USD", !.second = "EUR"],
                    FormatCustomTimeLayout(FirstDay),
                    FormatCustomTimeLayout(FirstDay + 1))]
    /\ UNCHANGED <<codec, today, banRows, lastBan, availCache, rateCache, timeCache>>

InitRace == InitState(RaceRequests)

NextRace ==
    \/ Tick /\ today' < FirstDay + RaceDays
    \/ \E w \in Workers :
        \/ GetCurrentCurrencyRateStartSameBase(w)
        \/ GetCurrentCurrencyRateCacheGet(w)
        \/ GetCurrentCurrencyRateNow(w)
        \/ GetCurrentCurrencyRateTodayY(w)
        \/ GetCurrentCurrencyRateTodayM(w)
        \/ GetCurrentCurrencyRateTodayD(w)
        \/ GetCurrentCurrencyRateFetch(w)
        \/ GetCurrentCurrencyRateCacheSet(w)
        \/ GetTimelineCurrencyRateStartSamePair(w)
        \/ GetTimelineCurrencyRateCacheGet(w)
        \/ GetTimelineCurrencyRateTodayY(w)
        \/ GetTimelineCurrencyRateTodayM(w)
        \/ GetTimelineCurrencyRateTodayD(w)
        \/ GetTimelineCurrencyRateFetch(w)
        \/ GetTimelineCurrencyRatePredict(w)
        \/ GetTimelineCurrencyRateCacheSet(w)

\* Requests for the same key running at the same time, over RaceDays days.
SpecRace == InitRace /\ [][NextRace]_vars

InitCodec ==
    /\ today = FirstDay
    /\ banRows = <<>>
    /\ lastBan = [c \in Registry |-> <<>>]
    /\ availCache = <<>>
    /\ rateCache = [c \in CacheBases |-> <<>>]
    /\ timeCache = [k \in CacheBases \X Targets |-> <<>>]
    /\ req = [w \in Workers |-> Idle]
    /\ budget = 0
    /\ codec \in {[CodecIdle EXCEPT !.pc = "input", !.input = b] : b \in CodecInputs}

NextCodec ==
    \/ Unmarshal
    \/ Marshal
    \/ CheckIsSet

\* The date codec alone: a token is parsed, the value is formatted and asked
\* whether it is set.
SpecCodec == InitCodec /\ [][NextCodec]_vars

\* A step of the handler that worker w runs: the dependency call it waits
\* for returns (with a value, an error, a timeout or a cancellation) and the
\* handler goes on to its next call or to its response; or the server is
\* done with the request.
Proceed(w) ==
    \/ GetAvailableCurrenciesCacheGet(w)
    \/ GetAvailableCurrenciesSelect(w)
    \/ GetAvailableCurrenciesCacheSet(w)
    \/ ChangeCurrencyBanStatusExec(w)
    \/ ChangeCurrencyBanStatusClean(w)
    \/ GetCurrentCurrencyRateCacheGet(w)
    \/ GetCurrentCurrencyRateNow(w)
    \/ GetCurrentCurrencyRateTodayY(w)
    \/ GetCurrentCurrencyRateTodayM(w)
    \/ GetCurrentCurrencyRateTodayD(w)
    \/ GetCurrentCurrencyRateFetch(w)
    \/ GetCurrentCurrencyRateCacheSet(w)
    \/ GetTimelineCurrencyRateCacheGet(w)
    \/ GetTimelineCurrencyRateTodayY(w)
    \/ GetTimelineCurrencyRateTodayM(w)
    \/ GetTimelineCurrencyRateTodayD(w)
    \/ GetTimelineCurrencyRateFetch(w)
    \/ GetTimelineCurrencyRatePredict(w)
    \/ GetTimelineCurrencyRateCacheSet(w)
    \/ Finish(w)

\* The hash "rate:collection" as an earlier run of the service may have left
\* it: empty, or holding one snapshot of the requested base with every
\* target, which was written on the first day.
LiveRateCaches ==
    LET empty == [c \in CacheBases |-> <<>>]
    IN  {empty} \cup
        {RedisSetCurrencyLastRate(empty, s, FALSE).hash :
            s \in {x \in Snapshots : /\ x.date = FirstDay
                                     /\ x.base \in Bases
                                     /\ DOMAIN x.rates = Targets}}

InitLive ==
    /\ today = FirstDay
    /\ banRows = <<>>
    /\ lastBan = [c \in Registry |-> <<>>]
    /\ availCache = <<>>
    /\ rateCache \in LiveRateCaches
    /\ timeCache = [k \in CacheBases \X Targets |-> <<>>]
    /\ req = [w \in Workers |-> Idle]
    /\ budget = LiveRequests
    /\ codec = CodecIdle

\* The four flows, where every dependency call comes back and every handler
\* goroutine is scheduled.
SpecLive ==
    InitLive /\ [][Next]_vars /\ \A w \in Sequential : WF_vars(Proceed(w))

\* The availability and ban flows, one request at a time, where the Del of
\* every invalidation reaches redis: after it the key "available" is absent.
NextAvailInOrder ==
    \/ \E w \in Sequential :
          \/ GetAvailableCurrenciesStart(w)
          \/ GetAvailableCurrenciesCacheGet(w)
          \/ GetAvailableCurrenciesSelect(w)
          \/ GetAvailableCurrenciesCacheSet(w)
          \/ ChangeCurrencyBanStatusStart(w)
          \/ ChangeCurrencyBanStatusExec(w)
          \/ ChangeCurrencyBanStatusClean(w) /\ availCache' = <<>>
          \/ Finish(w)
    \/ ExpireAvailableCurrencies

SpecAvailInOrder == InitAvail /\ [][NextAvailInOrder]_vars

InitKeys ==
    /\ today = FirstDay
    /\ banRows = <<>>
    /\ lastBan = [c \in Registry |-> <<>>]
    /\ availCache = <<>>
    /\ rateCache = [c \in CacheBases |-> <<>>]
    /\ timeCache = [k \in CacheBases \X Targets |-> <<>>]
    /\ req = [w \in Workers |-> Idle]
    /\ budget = 0
    /\ codec \in {[CodecIdle EXCEPT !.pc = "object", !.object = o] :
                    o \in RatesObjects}

NextKeys ==
    \/ DecodeMember
    \/ DecodeEnd

\* The decoding of a JSON object into a map keyed by CustomTime.
SpecKeys == InitKeys /\ [][NextKeys]_vars

----------------------------------------------------------------------------
(* Properties *)

Done(w, op) == req[w].op = op /\ req[w].pc = "done"

\* C1: current-rate flow: when the cache holds a point rate for the base
\* whose calendar date is strictly before today, the request returns that
\* cached rate as it is and makes no provider fetch and no cache write.
C1_CachedRateBeforeTodayIsReturned ==
    \A w \in Workers :
        LET r == req[w]
        IN  (r.op = "rate" /\ r.cached # <<>> /\ r.cached[1].date < r.now)
            => /\ r.pc = "done"
               /\ r.status = 200
               /\ r.body = r.cached
               /\ r.calls.provider = 0
               /\ r.calls.cacheSet = 0

\* C2: timeline flow: the returned series holds exactly the entries of the
\* full (cached or fetched) series whose date d has start <= d <= end, both
\* ends included, and the returned predictions are the full predictions.
\* Stated for the periods with start <= end, where the interval has an end
\* to include.
C2_TimelineFilterIsInclusive ==
    \A w \in Workers :
        LET r    == req[w]
            full == IF r.cached # <<>> THEN r.cached[1] ELSE r.fresh[1]
            got  == r.body[1]
        IN  (Done(w, "timeline") /\ r.status = 200 /\ r.start[1] <= r.end[1])
            => /\ DOMAIN got.rates =
                    {d \in DOMAIN full.rates : r.start[1] <= d /\ d <= r.end[1]}
               /\ \A d \in DOMAIN got.rates : got.rates[d] = full.rates[d]
               /\ got.predictions = full.predictions

\* The snapshot a finished current-rate request was answered from: the one
\* decoded from the provider's response, or else the cached one if the
\* response was served from the cache.
SnapshotUsed(r) ==
    IF r.fresh # <<>> THEN r.fresh
    ELSE IF r.status = 200 THEN r.stored
    ELSE <<>>

\* C3: current-rate flow: whenever the snapshot used to answer a request
\* (fetched or read back from the cache) has no entry for the requested
\* target, the request ends with the 'not found' client fault; no successful
\* response carries a rate of zero for a missing target.
C3_MissingTargetIsNotFound ==
    \A w \in Workers :
        LET r == req[w]
        IN  (Done(w, "rate") /\ SnapshotUsed(r) # <<>>
                /\ r.second \notin DOMAIN SnapshotUsed(r)[1].rates)
            => r.status = 400 /\ r.err = "cannot find rate"

\* A request that carries a currency code outside the registry.
HasInvalidCode(r) ==
    \/ r.op = "ban" /\ r.base \notin Registry
    \/ r.op \in {"rate", "timeline"}
        /\ (r.base \notin Registry \/ r.second \notin Registry)

\* C4: a ban-mutation, current-rate or timeline request that carries a code
\* outside the registry ends with a client fault and has made no call to the
\* cache, the ban store, the rate provider or the forecast service.
C4_InvalidCodeRejectedBeforeAnyCall ==
    \A w \in Workers :
        HasInvalidCode(req[w])
        => /\ req[w].pc = "done"
           /\ req[w].status = 400
           /\ req[w].calls = NoCalls

C4_Witness ==
    \E w \in Workers :
        /\ Done(w, "timeline")
        /\ req[w].base \in Registry
        /\ req[w].second \notin Registry
        /\ req[w].status = 400

\* Banned entries first, and the codes of each group strictly ascending.
BannedFirstThenByCode(list) ==
    \A i, j \in 1..Len(list) :
        i < j => /\ list[i].banned \/ ~list[j].banned
                 /\ list[i].banned = list[j].banned
                    => CodeRank(list[i].currency) < CodeRank(list[j].currency)

\* C5: every successful availability response, from the cache or built from
\* the ban store, lists the banned entries before the others and each group
\* by code ascending.
C5_AvailabilityIsSorted ==
    \A w \in Workers :
        (Done(w, "avail") /\ req[w].status = 200)
        => BannedFirstThenByCode(req[w].body[1])

C5_Witness ==
    \E w \in Workers :
        /\ Done(w, "avail")
        /\ req[w].status = 200
        /\ req[w].body[1] = <<[currency |-> "EUR", banned |-> TRUE],
                              [currency |-> "GBP", banned |-> TRUE],
                              [currency |-> "USD", banned |-> FALSE]>>

\* The worker sends a successful availability response in this step.
AvailabilityAnswered(w) ==
    /\ req[w].pc # "done"
    /\ req'[w].pc = "done"
    /\ req'[w].op = "avail"
    /\ req'[w].status = 200

\* C6: a successful availability response reports banned = false for every
\* registry code that has no row in the ban store when the response is sent.
C6_CodeWithoutRowIsNotBanned ==
    [][\A w \in Workers :
          AvailabilityAnswered(w)
          => \A c \in Registry :
                ~HasRow(banRows', c)
                => LET list == req'[w].body[1]
                   IN  /\ \E i \in 1..Len(list) : list[i].currency = c
                       /\ \A i \in 1..Len(list) :
                            list[i].currency = c => ~list[i].banned]_vars

C6_Witness ==
    \E w \in Workers :
        /\ Done(w, "avail")
        /\ req[w].status = 200
        /\ \E c \in Registry : ~HasRow(banRows, c)
        /\ \E i \in 1..Len(req[w].body[1]) : req[w].body[1][i].banned

\* The days on which the request r has been running: from its first reading
\* of the clock to the present.
RequestDays(r) == {d \in Days : r.now <= d /\ d <= today}

\* C7: a current-rate request that finds no cached rate for its base and
\* whose provider call succeeds with the target present makes exactly one
\* provider fetch, for the day before today (today being a day on which the
\* request ran), and exactly one cache write, of the whole fetched snapshot.
C7_MissFetchesYesterdayAndWritesOnce ==
    \A w \in Workers :
        LET r == req[w]
        IN  (Done(w, "rate") /\ r.calls.cacheGet = 1 /\ r.cached = <<>>
                /\ r.fresh # <<>> /\ r.second \in DOMAIN r.fresh[1].rates)
            => /\ r.calls.provider = 1
               /\ \E n \in RequestDays(r) : r.fetchTo = n - 1
               /\ r.calls.cacheSet = 1
               /\ r.written = r.fresh

\* C8: the upsert is idempotent and keyed by currency: applying a mutation
\* (c, b) twice leaves the table as applying it once does, the table holds at
\* most one row per code, and the flag of a row is that of the last
\* successful mutation of its code.
C8_UpsertIsIdempotentAndKeyed ==
    /\ \A c \in Registry :
          Cardinality({i \in 1..Len(banRows) : banRows[i].currency = c}) <= 1
    /\ \A c \in Registry :
          IF lastBan[c] = <<>> THEN ~HasRow(banRows, c)
          ELSE \E i \in 1..Len(banRows) :
                  banRows[i] = [currency |-> c, banned |-> lastBan[c][1]]
    /\ \A c \in Registry, b \in BOOLEAN :
          UpsertBan(UpsertBan(banRows, c, b), c, b) = UpsertBan(banRows, c, b)

C8_Witness ==
    /\ Done(1, "ban")
    /\ Done(2, "ban")
    /\ req[1].status = 200
    /\ req[2].status = 200
    /\ req[1].base = req[2].base
    /\ req[1].banned = req[2].banned
    /\ Len(banRows) = 1

\* C9: once the upsert has succeeded, the ban mutation is acknowledged as a
\* success whether the invalidation of the availability entry succeeds,
\* fails or deletes nothing, and the invalidation leaves the table as it is.
C9_InvalidationOutcomeIsNotSurfaced ==
    [][\A w \in Workers :
          (req[w].op = "ban" /\ req[w].pc = "cacheDel" /\ req'[w] # req[w])
          => /\ req'[w].pc = "done"
             /\ req'[w].status = 200
             /\ banRows' = banRows]_vars

C9_Witness ==
    \E w \in Workers :
        /\ Done(w, "ban")
        /\ req[w].calls.cacheDel = 1
        /\ req[w].log # ""
        /\ req[w].status = 200

\* The value a flow computes from its authoritative source.
FreshlyComputed(r) ==
    CASE r.op = "avail"    -> r.fresh
      [] r.op = "rate"     -> <<ToResultRate(r.fresh[1], r.second)>>
      [] r.op = "timeline" -> <<TimelineResult(r.fresh[1], r.start[1], r.end[1])>>

\* C10: in the availability, current-rate and timeline flows a failed cache
\* write-back does not reach the caller: the request succeeds and its
\* response is the freshly computed value.
C10_WriteBackFailureIsNotSurfaced ==
    \A w \in Workers :
        LET r == req[w]
        IN  (r.pc = "done" /\ r.op \in {"avail", "rate", "timeline"}
                /\ r.calls.cacheSet = 1 /\ r.log # "")
            => r.status = 200 /\ r.body = FreshlyComputed(r)

C10_Witness ==
    \E w \in Workers :
        /\ Done(w, "timeline")
        /\ req[w].calls.cacheSet = 1
        /\ req[w].log # ""
        /\ req[w].status = 200
        /\ req[w].body[1].rates # <<>>

\* The cache holds nothing under the key the request reads.
KeyNotPresent(r) ==
    CASE r.op = "avail"    -> availCache = <<>>
      [] r.op = "rate"     -> rateCache[r.base] = <<>>
      [] r.op = "timeline" -> timeCache[<<r.base, r.second>>] = <<>>

\* The request has not consulted its authoritative source.
SourceNotConsulted(r) ==
    r.calls.dbQuery = 0 /\ r.calls.provider = 0 /\ r.calls.forecast = 0

\* The steps between the cache read and the call of the authoritative source:
\* the handler reads the clock and makes no response.
TowardsTheSource(r, after) ==
    /\ after.status = 0
    /\ after.calls = r.calls
    /\ \/ r.pc = "todayY" /\ after.pc = "todayM"
       \/ r.pc = "todayM" /\ after.pc = "todayD"
       \/ r.pc = "todayD" /\ after.pc = "provider"

\* C11: the cache read of a read flow has three outcomes. A failed read ends
\* the request with a server fault and the authoritative source is not
\* consulted. A read of an absent key that does not fail sends the request on
\* to the authoritative source. A read of a present key that does not fail
\* answers from the cache, or, in the current-rate flow, goes on to the
\* provider when the entry fails the date test. Between the cache read and
\* the provider call the rate and timeline handlers read the clock, and
\* nothing else.
C11_CacheReadFailureIsFatalMissIsNot ==
    [][\A w \in Workers :
          /\ (req[w].op \in {"avail", "rate", "timeline"}
                 /\ req[w].pc = "cacheGet" /\ req'[w] # req[w])
             => \/ /\ req'[w].pc = "done"
                   /\ req'[w].status = 500
                   /\ req'[w].body = <<>>
                   /\ SourceNotConsulted(req'[w])
                \/ /\ KeyNotPresent(req[w])
                   /\ req'[w].pc = (IF req[w].op = "avail" THEN "dbQuery"
                                    ELSE "todayY")
                   /\ req'[w].status = 0
                \/ /\ ~KeyNotPresent(req[w])
                   /\ \/ req'[w].pc = "done" /\ req'[w].status = 200
                         /\ req'[w].cached # <<>> /\ SourceNotConsulted(req'[w])
                      \/ req[w].op = "rate" /\ req'[w].pc = "now"
                         /\ req'[w].cached # <<>> /\ req'[w].status = 0
          /\ (req[w].op = "rate" /\ req[w].pc = "now" /\ req'[w] # req[w])
             => \/ /\ req'[w].pc = "done" /\ req'[w].status = 200
                   /\ req'[w].body = req[w].cached
                   /\ SourceNotConsulted(req'[w])
                   /\ CachedRateIsUsed(req[w].cached[1].date, req'[w].now)
                \/ /\ req'[w].pc = "todayY" /\ req'[w].status = 0
                   /\ ~CachedRateIsUsed(req[w].cached[1].date, req'[w].now)
          /\ (req[w].pc \in {"todayY", "todayM", "todayD"} /\ req'[w] # req[w])
             => TowardsTheSource(req[w], req'[w])]_vars

C11_Witness ==
    \E w \in Workers :
        /\ Done(w, "timeline")
        /\ req[w].calls.cacheGet = 1
        /\ req[w].status = 500
        /\ timeCache[<<req[w].base, req[w].second>>] # <<>>
        /\ SourceNotConsulted(req[w])

\* C12: the forecast step of a timeline request either decodes a list of
\* values and goes on with the predictions made of it, or ends the request
\* with an error: no timeline is returned and the request, which has made no
\* cache write, makes none.
C12_ForecastFailureIsFatal ==
    [][\A w \in Workers :
          (req[w].op = "timeline" /\ req[w].pc = "forecast" /\ req'[w] # req[w])
          => \/ /\ req'[w].pc = "done"
                /\ req'[w].status = 500
                /\ req'[w].err \in {"error in get predictions",
                                    "error in reading predictor response"}
                /\ req'[w].body = <<>>
                /\ req'[w].calls.cacheSet = 0
                /\ req'[w].written = <<>>
                /\ timeCache' = timeCache
             \/ /\ req'[w].pc = "cacheSet"
                /\ req'[w].err = ""
                /\ req'[w].log = ""
                /\ \E p \in PredictionLists :
                      req'[w].fresh[1].predictions =
                        Predictions(req[w].todayY, req[w].todayM,
                                    req[w].todayD, p)]_vars

C12_Witness ==
    \E w \in Workers :
        /\ Done(w, "timeline")
        /\ req[w].calls.forecast = 1
        /\ req[w].status = 500
        /\ req[w].err = "error in reading predictor response"
        /\ req[w].calls.cacheSet = 0
        /\ timeCache[<<req[w].base, req[w].second>>] = <<>>

\* The predictions map the claim describes for the forecast values p of a
\* request made on day n: the N-th value, N = 0.., under yesterday + (N + 1).
DatedFromYesterday(n, p) ==
    LET yesterday == n - 1
    IN  [d \in {yesterday + (N + 1) : N \in 0..(Len(p) - 1)} |-> p[d - yesterday]]

\* Forecast answers whose values are all different: 1, 2, .., k.
DistinctValues == {[i \in 1..k |-> i] : k \in 0..MaxPredictions}

\* The map's dates are the day n and the days that follow it, with no gap.
ConsecutiveFrom(predictions, n) ==
    DOMAIN predictions = n..(n + Cardinality(DOMAIN predictions) - 1)

\* C13: for a forecast response of k values the predictions map has exactly k
\* entries and holds the N-th value under yesterday + (N + 1) days, so that
\* the first is dated today and the dates are consecutive, today being a day
\* on which the request ran. This holds of the map every request builds and
\* writes, and of every stored timeline.
C13_PredictionsDatedFromToday ==
    /\ \A w \in Workers :
          (req[w].op = "timeline" /\ req[w].calls.forecast = 1
              /\ req[w].pc \in {"cacheSet", "done"} /\ req[w].status # 500)
          => /\ \E n \in RequestDays(req[w]) :
                   /\ \A p \in PredictionLists \cup DistinctValues :
                         LET built == Predictions(req[w].todayY, req[w].todayM,
                                                  req[w].todayD, p)
                         IN  /\ built = DatedFromYesterday(n, p)
                             /\ Cardinality(DOMAIN built) = Len(p)
                   /\ ConsecutiveFrom(req[w].fresh[1].predictions, n)
             /\ req[w].written # <<>> => req[w].written = req[w].fresh
    /\ \A k \in DOMAIN timeCache :
          timeCache[k] # <<>>
          => \E n \in Days : ConsecutiveFrom(timeCache[k][1].predictions, n)

\* The same calendar day one year before the day d.
OneYearBefore(d) ==
    LET c == CivilFromDays(d) IN GoDate(c.year - 1, c.month, c.day)

\* C14: on a cache miss the range asked of the provider starts one year
\* before yesterday and ends yesterday, yesterday being the day before the
\* day of the request, and today is not in the range.
C14_FetchRangeIsYearBeforeYesterdayToYesterday ==
    \A w \in Workers :
        LET r == req[w]
        IN  (r.op = "timeline" /\ r.calls.cacheGet = 1 /\ r.cached = <<>>
                /\ (r.pc = "provider" \/ r.calls.provider = 1))
            => /\ r.fetchTo = r.now - 1
               /\ r.fetchFrom = OneYearBefore(r.now - 1)
               /\ ~(r.fetchFrom <= r.now /\ r.now <= r.fetchTo)

\* C15: when the cache holds a timeline under the key of the requested pair,
\* the cache read ends the request: it has made no provider fetch, no
\* forecast call and no cache write, the stored timelines are untouched, and
\* its response is the cached timeline filtered by the requested period (or
\* a server fault, when the read itself fails).
C15_CachedTimelineSkipsFetch ==
    [][\A w \in Workers :
          LET key == <<req[w].base, req[w].second>>
          IN  (req[w].op = "timeline" /\ req[w].pc = "cacheGet"
                  /\ req'[w] # req[w] /\ timeCache[key] # <<>>)
              => /\ req'[w].pc = "done"
                 /\ req'[w].calls.provider = 0
                 /\ req'[w].calls.forecast = 0
                 /\ req'[w].calls.cacheSet = 0
                 /\ req'[w].fresh = <<>>
                 /\ timeCache' = timeCache
                 /\ \/ req'[w].status = 500 /\ req'[w].body = <<>>
                    \/ /\ req'[w].status = 200
                       /\ req'[w].cached = timeCache[key]
                       /\ req'[w].body =
                            <<TimelineResult(timeCache[key][1],
                                             req[w].start[1], req[w].end[1])>>]_vars

C15_Witness ==
    \E w \in Workers :
        /\ Done(w, "timeline")
        /\ req[w].status = 200
        /\ req[w].cached # <<>>
        /\ req[w].cached = timeCache[<<req[w].base, req[w].second>>]
        /\ req[w].calls.provider = 0
        /\ req[w].body[1].rates # <<>>

\* The worker takes its cache write-back step of the current-rate or of the
\* timeline flow.
WritesBack(w, op) ==
    req[w].op = op /\ req[w].pc = "cacheSet" /\ req'[w] # req[w]

\* C16: requests for one key that run at the same time may all miss, fetch
\* and write. A write-back either leaves the cache as it is or replaces the
\* entry of its key by the whole value of the writing request, and touches
\* no other entry; no other step changes these entries. So every entry is at
\* all times the complete value of the write applied last, one request's
\* value and never a mix of two. The response of each request is made of the
\* value that request fetched.
C16_LastWriterWinsWithoutMixing ==
    [][/\ \A w \in Workers :
            WritesBack(w, "rate")
            => /\ req'[w].written = req[w].fresh
               /\ \/ rateCache' = rateCache
                  \/ rateCache' =
                        [rateCache EXCEPT ![req[w].fresh[1].base] = req[w].fresh]
               /\ timeCache' = timeCache
               /\ req'[w].body = <<ToResultRate(req[w].fresh[1], req[w].second)>>
       /\ \A w \in Workers :
            WritesBack(w, "timeline")
            => /\ req'[w].written = req[w].fresh
               /\ \/ timeCache' = timeCache
                  \/ timeCache' =
                        [timeCache EXCEPT ![<<req[w].fresh[1].base,
                                              req[w].fresh[1].second>>] = req[w].fresh]
               /\ rateCache' = rateCache
               /\ req'[w].body = <<TimelineResult(req[w].fresh[1],
                                                  req[w].start[1], req[w].end[1])>>
       /\ (\A w \in Workers : ~WritesBack(w, "rate") /\ ~WritesBack(w, "timeline"))
            => rateCache' = rateCache /\ timeCache' = timeCache
       /\ \A k \in DOMAIN rateCache :
            rateCache[k] = <<>> \/ \E w \in Workers : rateCache[k] = req[w].written
       /\ \A k \in DOMAIN timeCache :
            timeCache[k] = <<>> \/ \E w \in Workers : timeCache[k] = req[w].written
      ]_vars

C16_Witness ==
    /\ Done(1, "timeline")
    /\ Done(2, "timeline")
    /\ \A w \in {1, 2} :
          /\ req[w].cached = <<>>
          /\ req[w].calls.provider = 1
          /\ req[w].calls.cacheSet = 1
          /\ req[w].written[1].base = "USD"
          /\ req[w].body = <<TimelineResult(req[w].fresh[1],
                                            req[w].start[1], req[w].end[1])>>
    /\ req[1].written # req[2].written
    /\ req[1].log = ""
    /\ timeCache[<<"USD", "EUR">>] = req[2].written

\* The dependency calls of each flow, in the order the flow makes them. The
\* last one is the best-effort cache write or invalidation.
FlowOrder(op) ==
    CASE op = "avail"    -> <<"cacheGet", "dbQuery", "cacheSet">>
      [] op = "ban"      -> <<"dbExec", "cacheDel">>
      [] op = "rate"     -> <<"cacheGet", "provider", "cacheSet">>
      [] op = "timeline" -> <<"cacheGet", "provider", "forecast", "cacheSet">>

\* The calls made are the first j calls of the flow, once each.
MadeFirstCalls(r, j) ==
    \A dep \in DOMAIN NoCalls :
        r.calls[dep] =
            IF \E i \in 1..j : FlowOrder(r.op)[i] = dep THEN 1 ELSE 0

\* C17: a request that has an error status has ended. It carries no success
\* payload, and the calls it has made are the calls of its flow up to the
\* one that failed (none, when the validation failed): no later fetch, no
\* forecast call, no cache write and no cache invalidation.
C17_FailureStopsTheFlow ==
    \A w \in Workers :
        LET r == req[w]
        IN  (r.op # "idle" /\ r.status >= 400)
            => /\ r.pc = "done"
               /\ r.body = <<>>
               /\ r.written = <<>>
               /\ r.calls.cacheSet = 0
               /\ r.calls.cacheDel = 0
               /\ \E j \in 0..(Len(FlowOrder(r.op)) - 1) :
                     /\ MadeFirstCalls(r, j)
                     /\ (r.status = 400 /\ r.err # "cannot find rate") => j = 0

C17_Witness ==
    \E w \in Workers :
        /\ Done(w, "ban")
        /\ req[w].status = 500
        /\ req[w].calls.dbExec = 1
        /\ req[w].calls.cacheDel = 0
        /\ availCache # <<>>

\* C18: a timeline request with valid codes whose start or end does not
\* parse in the layout (its record holds no parsed start, or no parsed end)
\* has ended with a client error and has made no call to the cache, the
\* provider or the forecast service.
C18_UnparsedPeriodIsRejectedBeforeAnyCall ==
    \A w \in Workers :
        LET r == req[w]
        IN  (r.op = "timeline" /\ r.base \in Registry /\ r.second \in Registry
                /\ (r.start = <<>> \/ r.end = <<>>))
            => /\ r.pc = "done"
               /\ r.status = 400
               /\ r.err = (IF r.start = <<>> THEN "invalid start period date"
                           ELSE "invalid end period date")
               /\ r.body = <<>>
               /\ r.calls = NoCalls

C18_Witness ==
    \E w \in Workers :
        /\ Done(w, "timeline")
        /\ req[w].status = 400
        /\ req[w].start # <<>>
        /\ req[w].end = <<>>
        /\ req[w].err = "invalid end period date"

\* C19: when the cache holds an availability list, the cache read ends the
\* request: the response is exactly that list, entry by entry in the same
\* order (or a server fault, when the read itself fails), and the request
\* has made no query of the ban table and no cache write; the cached list
\* and the table are left as they are.
C19_CachedAvailabilityIsReturnedVerbatim ==
    [][\A w \in Workers :
          (req[w].op = "avail" /\ req[w].pc = "cacheGet"
              /\ req'[w] # req[w] /\ availCache # <<>>)
          => /\ req'[w].pc = "done"
             /\ req'[w].calls.dbQuery = 0
             /\ req'[w].calls.cacheSet = 0
             /\ availCache' = availCache
             /\ banRows' = banRows
             /\ \/ req'[w].status = 500 /\ req'[w].body = <<>>
                \/ req'[w].status = 200 /\ req'[w].body = availCache]_vars

C19_Witness ==
    \E w \in Workers :
        /\ Done(w, "avail")
        /\ req[w].status = 200
        /\ req[w].cached # <<>>
        /\ req[w].body = req[w].cached
        /\ req[w].calls.dbQuery = 0
        /\ \E i \in 1..Len(req[w].body[1]) :
              /\ ~req[w].body[1][i].banned
              /\ \E j \in 1..Len(banRows) :
                    banRows[j] = [currency |-> req[w].body[1][i].currency,
                                  banned |-> TRUE]

\* The token is a date in the layout, between quotes.
IsCanonicalDate(b) ==
    /\ Len(b) = 12
    /\ b[1] = Quote
    /\ b[12] = Quote
    /\ ParseCustomTimeLayout(SubSeq(b, 2, 11)) # <<>>

\* C20: every valid date text in the layout parses without error into a
\* value that is set and that formats back to the same text; the token null
\* parses without error into the unset value, which is not set and formats
\* to null.
C20_DateCodecRoundTrip ==
    codec.pc = "checked"
    => /\ IsCanonicalDate(codec.input)
          => ~codec.err /\ codec.output = codec.input /\ codec.isSet
       /\ codec.input = NullText
          => /\ ~codec.err
             /\ codec.time = ZeroTime
             /\ codec.output = NullText
             /\ ~codec.isSet

\* C21: CustomTime values are the same map key exactly when they denote the
\* same calendar date: a map decoded from JSON never holds two entries for
\* one calendar date, whatever the time of day of the key texts.
C21_OneKeyPerCalendarDate ==
    codec.pc \in {"object", "decoded"}
    => \A a \in DOMAIN codec.rates, b \in DOMAIN codec.rates :
          (a = b) <=> (a.day = b.day)

\* The timeout configured for a dependency.
ConfiguredTimeout(dep) ==
    CASE dep \in {"cacheGet", "cacheSet", "cacheDel"} -> "CacheTimeout"
      [] dep \in {"dbQuery", "dbExec"} -> "DBTimeout"
      [] dep = "provider" -> "ExchangerAPITimeout"

\* C22: every cache, table and provider call a request has made was given a
\* context that is derived from the request's context and carries the
\* timeout configured for that dependency.
C22_CallsCarryTheConfiguredTimeout ==
    \A w \in Workers :
        \A dep \in DOMAIN NoCalls \ {"forecast"} :
            req[w].calls[dep] > 0
            => /\ req[w].contexts[dep] # <<>>
               /\ req[w].contexts[dep][1].request
               /\ req[w].contexts[dep][1].timeout = ConfiguredTimeout(dep)

\* The number of dependency calls a request has made.
TotalCalls(r) ==
    r.calls.cacheGet + r.calls.cacheSet + r.calls.cacheDel + r.calls.dbQuery
    + r.calls.dbExec + r.calls.provider + r.calls.forecast

\* The request r has ended in r2 with a server fault, right after one more
\* call.
Surfaced(r, r2) ==
    /\ r2.pc = "done"
    /\ r2.status = 500
    /\ r2.err # ""
    /\ r2.body = <<>>
    /\ TotalCalls(r2) = TotalCalls(r) + 1

\* The responses of a provider that count as a failed fetch.
FailedFetches ==
    {[kind |-> "transport", success |-> FALSE, val |-> <<>>],
     [kind |-> "undecodable", success |-> FALSE, val |-> <<>>],
     [kind |-> "body", success |-> FALSE, val |-> <<>>]}

\* What the handler makes of a failure of the required call that r is about
\* to make: the set of the requests it may leave.
AfterFailedAttempt(r) ==
    CASE r.op = "avail" /\ r.pc = "cacheGet" ->
            {AvailAfterCacheGet(Called(r, "cacheGet"), Failed)}
      [] r.op = "avail" /\ r.pc = "dbQuery" ->
            {AvailAfterSelect(Called(r, "dbQuery"), Failed, o) : o \in RegistryOrders}
      [] r.op = "ban" /\ r.pc = "dbExec" ->
            {BanAfterExec(Called(r, "dbExec"), TRUE)}
      [] r.op = "rate" /\ r.pc = "cacheGet" ->
            {RateAfterCacheGet(Called(r, "cacheGet"),
                 RedisGetCurrencyLastRate(rateCache, r.base, r.second, TRUE))}
      [] r.op = "rate" /\ r.pc = "provider" ->
            {RateAfterFetch(Called(r, "provider"), f) : f \in FailedFetches}
      [] r.op = "timeline" /\ r.pc = "cacheGet" ->
            {TimelineAfterCacheGet(Called(r, "cacheGet"),
                 RedisGetTimestampRate(timeCache, r.base, r.second, TRUE))}
      [] r.op = "timeline" /\ r.pc = "provider" ->
            {TimelineAfterFetch(Called(r, "provider"), f) : f \in FailedFetches}
      [] r.op = "timeline" /\ r.pc = "forecast" ->
            {TimelineAfterPredict(Called(r, "forecast"), f) :
                f \in {x \in ForecastResponses : x.kind # "body"}}
      [] OTHER -> {}

\* C23: within one request every dependency operation is attempted at most
\* once: no call has been made twice, a request never waits at a call it has
\* already made, and one failed attempt of a required call ends the request
\* with a server fault.
C23_NoRetries ==
    \A w \in Workers :
        LET r == req[w]
        IN  /\ \A dep \in DOMAIN NoCalls : r.calls[dep] <= 1
            /\ r.pc \in DOMAIN NoCalls => r.calls[r.pc] = 0
            /\ \A r2 \in AfterFailedAttempt(r) : Surfaced(r, r2)

\* A provider fetch has failed and the request has ended with a server
\* fault after that single attempt.
C23_Witness ==
    \E w \in Workers :
        /\ req[w].op \in {"rate", "timeline"}
        /\ req[w].pc = "done"
        /\ req[w].status = 500
        /\ req[w].calls.provider = 1
        /\ req[w].calls.cacheGet = 1

\* C24: every currency code that is the key of a row of currency_bans, a
\* field of the hash of point rates, or a component of a field of the hash
\* of timelines is a member of the registry.
C24_StoredCodesAreRegistered ==
    /\ \A i \in 1..Len(banRows) : banRows[i].currency \in Registry
    /\ \A b \in DOMAIN rateCache : rateCache[b] # <<>> => b \in Registry
    /\ \A k \in DOMAIN timeCache :
          timeCache[k] # <<>> => k[1] \in Registry /\ k[2] \in Registry

\* The worker w makes a cache write in this step: a set, a save or the
\* invalidation.
CacheWriteStep(w) ==
    /\ req[w].pc \in {"cacheSet", "cacheDel"}
    /\ req'[w] # req[w]

\* The write of this step finds the backend with nothing to count: the field
\* of the hash is there already, or the key to delete is not.
ZeroAffected(w) ==
    \/ req[w].op = "rate" /\ req[w].pc = "cacheSet"
          /\ rateCache[req[w].fresh[1].base] # <<>>
    \/ req[w].op = "timeline" /\ req[w].pc = "cacheSet"
          /\ timeCache[<<req[w].fresh[1].base, req[w].fresh[1].second>>] # <<>>
    \/ req[w].op = "ban" /\ req[w].pc = "cacheDel" /\ availCache = <<>>

\* C25: a cache write returns an error whenever the backend reports that
\* zero entries were affected, and a cache write that returns an error has
\* left the stored content as it was before the call.
C25_FailedWriteLeavesTheCacheUnchanged ==
    [][\A w \in Workers :
          CacheWriteStep(w)
          => /\ ZeroAffected(w) => req'[w].log # ""
             /\ req'[w].log # ""
                => /\ availCache' = availCache
                   /\ rateCache' = rateCache
                   /\ timeCache' = timeCache]_vars

\* C26: when a write-back has stored a snapshot for its base, a read of that
\* base and of any target of the snapshot's rates gives the base, the target,
\* the snapshot's rate of the target and the snapshot's date, whichever
\* target the writing request asked for.
C26_OneSnapshotServesEveryTarget ==
    [][\A w \in Workers :
          LET S == req[w].fresh[1]
          IN  (/\ WritesBack(w, "rate")
               /\ rateCache' = RedisSetCurrencyLastRate(rateCache, S, FALSE).hash)
              => \A T \in DOMAIN S.rates :
                    RedisGetCurrencyLastRate(rateCache', S.base, T, FALSE).val
                    = <<[base |-> S.base, second |-> T, rate |-> S.rates[T],
                         date |-> S.date]>>]_vars

\* A request for one target has stored a snapshot with two targets, and a
\* request for the other target has been answered from it.
C26_Witness ==
    \E w \in Workers, v \in Workers :
        /\ Done(w, "rate")
        /\ req[w].written # <<>>
        /\ DOMAIN req[w].written[1].rates = Targets
        /\ rateCache[req[w].base] = req[w].written
        /\ Done(v, "rate")
        /\ req[v].second # req[w].second
        /\ req[v].calls.provider = 0
        /\ req[v].stored = req[w].written
        /\ req[v].status = 200
        /\ req[v].body = <<[base |-> req[w].base, second |-> req[v].second,
                            rate |-> req[w].written[1].rates[req[v].second],
                            date |-> req[w].written[1].date]>>

\* The request of worker w has ended with exactly one response: a success
\* with no error text, or an error with no body.
Answered(w) ==
    /\ req[w].pc = "done"
    /\ \/ req[w].status = 200 /\ req[w].err = ""
       \/ req[w].status \in {400, 500} /\ req[w].err # "" /\ req[w].body = <<>>

\* C27: when every dependency call returns, times out or is cancelled, every
\* request that is started eventually ends with exactly one outcome, a
\* success response or an error response.
C27_EveryRequestEndsWithOneOutcome ==
    \A w \in Sequential : (req[w].pc # "idle") ~> Answered(w)

\* The list has exactly one entry for every code of the registry and no
\* other entry.
OneEntryPerRegistryCode(list) ==
    /\ Len(list) = Cardinality(Registry)
    /\ \A i \in 1..Len(list) : list[i].currency \in Registry
    /\ \A c \in Registry :
          Cardinality({i \in 1..Len(list) : list[i].currency = c}) = 1

\* C28: availability flow on a cache miss: the list built from the selected
\* rows has exactly one entry for every registry code and no other entry,
\* the entry of a code that has a row carries the flag of that row, and the
\* list given to the cache write is the list that is returned.
C28_BuiltListCoversTheRegistry ==
    [][\A w \in Workers :
          /\ (req[w].op = "avail" /\ req[w].pc = "dbQuery"
                /\ req'[w].pc = "cacheSet")
             => LET list == req'[w].fresh[1]
                IN  /\ OneEntryPerRegistryCode(list)
                    /\ \A i \in 1..Len(list), j \in 1..Len(banRows) :
                          banRows[j].currency = list[i].currency
                          => list[i].banned = banRows[j].banned
          /\ (req[w].op = "avail" /\ req[w].pc = "cacheSet" /\ req'[w] # req[w])
             => /\ req'[w].written = req[w].fresh
                /\ req'[w].status = 200
                /\ req'[w].body = req'[w].written
                /\ availCache' \in {availCache, req'[w].written}
                /\ OneEntryPerRegistryCode(req'[w].body[1])]_vars

\* A list built on a miss, with one code banned by its row and the others
\* without a row, has been written to the cache and returned.
C28_Witness ==
    \E w \in Workers :
        /\ Done(w, "avail")
        /\ req[w].calls.dbQuery = 1
        /\ req[w].calls.cacheSet = 1
        /\ req[w].status = 200
        /\ req[w].body = req[w].written
        /\ availCache = req[w].written
        /\ Len(banRows) = 1
        /\ banRows[1].banned
        /\ \E i \in 1..Len(req[w].body[1]) :
              req[w].body[1][i] = [currency |-> banRows[1].currency, banned |-> TRUE]

\* The request r has been answered with the cached rate and no fetch.
ServedFromCache(r) ==
    /\ r.pc = "done"
    /\ r.status = 200
    /\ r.body = r.cached
    /\ r.calls.provider = 0
    /\ r.calls.cacheSet = 0

\* The request has put its cached rate to the date test: the cache read
\* returned an entry and the handler has read the clock for the test.
DateTested(r) == r.op = "rate" /\ r.cached # <<>> /\ r.pc # "now" /\ r.now # 0

\* The request is past the date test and goes to the provider: it reads the
\* clock for the provider URL, stands at the provider call or has made it.
GoesToProvider(r) ==
    \/ r.pc \in {"todayY", "todayM", "todayD", "provider"} /\ r.status = 0
    \/ r.calls.provider = 1

\* C29: current-rate flow, boundary of the freshness test: once the test has
\* been made (today being the day the test read from the clock), a cached
\* point rate is returned from the cache exactly when its calendar date is on
\* or before today; one dated today is returned without a provider fetch, and
\* one dated after today is not returned and a provider fetch is made.
C29_CachedRateIsUsedUpToToday ==
    \A w \in Workers :
        LET r == req[w]
        IN  DateTested(r)
            => /\ ServedFromCache(r) <=> r.cached[1].date <= r.now
               /\ r.cached[1].date = r.now => ServedFromCache(r)
               /\ r.cached[1].date > r.now
                  => ~ServedFromCache(r) /\ GoesToProvider(r)

\* The worker w takes the step of the ban flow that stands at pc.
BanStep(w, pc) ==
    req[w].op = "ban" /\ req[w].pc = pc /\ req'[w] # req[w]

\* C30: ban flow: the availability entry is invalidated only after the
\* upsert of the same request has succeeded; when the upsert fails the
\* request ends with a server fault after that call, and the cache entry and
\* the table are left as they were.
C30_InvalidationFollowsTheUpsert ==
    [][/\ \A w \in Workers :
            BanStep(w, "dbExec")
            => /\ availCache' = availCache
               /\ \/ /\ req'[w].pc = "cacheDel"
                     /\ req'[w].status = 0
                     /\ banRows' = UpsertBan(banRows, req[w].base, req[w].banned)
                  \/ /\ req'[w].pc = "done"
                     /\ req'[w].status = 500
                     /\ req'[w].calls.cacheDel = 0
                     /\ banRows' = banRows
       /\ \A w \in Workers :
            BanStep(w, "cacheDel")
            => /\ req[w].calls.dbExec = 1
               /\ req[w].calls.cacheDel = 0
               /\ req[w].status = 0
               /\ \E i \in 1..Len(banRows) : banRows[i].currency = req[w].base
               /\ banRows' = banRows
       /\ (availCache # <<>> /\ availCache' = <<>>)
            => \/ \E w \in Workers : BanStep(w, "cacheDel")
               \/ req' = req
       /\ \A w \in Workers :
            (req[w].op = "ban" /\ req[w].pc = "done" /\ req[w].status = 500)
            => req[w].calls.cacheDel = 0
      ]_vars

\* An upsert has failed while the cache held a list: the request has ended
\* with a server fault, the list is still cached and the table has no row
\* with the requested flag.
C30_Witness ==
    \E w \in Workers :
        /\ Done(w, "ban")
        /\ req[w].status = 500
        /\ req[w].calls.dbExec = 1
        /\ req[w].calls.cacheDel = 0
        /\ availCache # <<>>
        /\ \A i \in 1..Len(banRows) :
              banRows[i] # [currency |-> req[w].base, banned |-> req[w].banned]

\* The request r as it would be with another period in its parameters.
OtherPeriods(r) ==
    {[r EXCEPT !.start = <<s>>, !.end = <<e>>] : s \in Days, e \in Days}

\* Two requests are alike in everything but the period asked for and the
\* response body.
AlikeButPeriod(r1, r2) ==
    [r1 EXCEPT !.start = <<>>, !.end = <<>>, !.body = <<>>]
        = [r2 EXCEPT !.start = <<>>, !.end = <<>>, !.body = <<>>]

\* C31: timeline flow with the cache: on a miss, the range asked of the
\* provider and the entry written to the cache do not depend on the caller's
\* start and end. Every step of a request that missed is compared with the
\* step the same handler takes for any other period, given the same clock
\* and the same answers of the cache, the provider and the forecast service:
\* both ask the provider for the same range, build and store the same
\* timeline and leave the same cache; they differ in the period and in the
\* response body only, which is the stored timeline filtered by the period.
C31_FetchAndStoredEntryIgnoreThePeriod ==
    [][\A w \in Sequential :
          LET r   == req[w]
              key == <<r.base, r.second>>
          IN  (r.op = "timeline" /\ req'[w] # r)
              => \A alt \in OtherPeriods(r) :
                    /\ (r.pc = "cacheGet" /\ timeCache[key] = <<>>)
                       => \A down \in BOOLEAN :
                            LET Step(q) ==
                                    TimelineAfterCacheGet(Called(q, "cacheGet"),
                                        RedisGetTimestampRate(timeCache, q.base,
                                                              q.second, down))
                            IN  req'[w] = Step(r)
                                => AlikeButPeriod(Step(alt), req'[w])
                    /\ r.pc = "todayY"
                       => (req'[w] = TodayY(r, today)
                              => AlikeButPeriod(TodayY(alt, today), req'[w]))
                    /\ r.pc = "todayM"
                       => (req'[w] = TodayM(r, today)
                              => AlikeButPeriod(TodayM(alt, today), req'[w]))
                    /\ r.pc = "todayD"
                       => LET Step(q) == TimelineTodayD(q, today)
                          IN  req'[w] = Step(r)
                              => /\ AlikeButPeriod(Step(alt), req'[w])
                                 /\ Step(alt).fetchFrom = req'[w].fetchFrom
                                 /\ Step(alt).fetchTo = req'[w].fetchTo
                    /\ r.pc = "provider"
                       => /\ TimelineResponses(alt) = TimelineResponses(r)
                          /\ \A resp \in TimelineResponses(r) :
                                LET Step(q) ==
                                        TimelineAfterFetch(Called(q, "provider"), resp)
                                IN  req'[w] = Step(r)
                                    => AlikeButPeriod(Step(alt), req'[w])
                    /\ r.pc = "forecast"
                       => \A resp \in ForecastResponses :
                            LET Step(q) ==
                                    TimelineAfterPredict(Called(q, "forecast"), resp)
                            IN  req'[w] = Step(r)
                                => AlikeButPeriod(Step(alt), req'[w])
                    /\ r.pc = "cacheSet"
                       => \A down \in BOOLEAN :
                            LET Save(q) ==
                                    RedisSaveTimestampRate(timeCache, q.fresh[1], down)
                                Step(q) ==
                                    TimelineAfterCacheSet(
                                        [Called(q, "cacheSet") EXCEPT
                                            !.written = q.fresh],
                                        Save(q).err)
                            IN  (req'[w] = Step(r) /\ timeCache' = Save(r).hash)
                                => /\ AlikeButPeriod(Step(alt), req'[w])
                                   /\ Save(alt).hash = timeCache'
                                   /\ Step(alt).written = req'[w].written
                                   /\ Step(alt).body =
                                        <<TimelineResult(req'[w].written[1],
                                                         alt.start[1], alt.end[1])>>
                                   /\ req'[w].body =
                                        <<TimelineResult(req'[w].written[1],
                                                         r.start[1], r.end[1])>>]_vars

C31_Witness ==
    \E w \in Sequential :
        /\ Done(w, "timeline")
        /\ req[w].status = 200
        /\ req[w].cached = <<>>
        /\ req[w].calls.provider = 1
        /\ req[w].written # <<>>
        /\ timeCache[<<req[w].written[1].base, req[w].second>>] = req[w].written
        /\ req[w].start[1] # req[w].fetchFrom
        /\ req[w].end[1] # req[w].fetchTo
        /\ DOMAIN req[w].body[1].rates # DOMAIN req[w].written[1].rates

\* C32: timeline flow: when the requested start is after the requested end,
\* the returned series has no entries, whatever the full series holds.
C32_ReversedPeriodGivesNoEntries ==
    \A w \in Workers :
        LET r == req[w]
        IN  (Done(w, "timeline") /\ r.status = 200 /\ r.start[1] > r.end[1])
            => DOMAIN r.body[1].rates = {}

\* The list reports the flag b for the code c.
Reports(list, c, b) ==
    \E i \in 1..Len(list) : list[i].currency = c /\ list[i].banned = b

\* C33: when requests do not overlap and every invalidation succeeds, an
\* availability request that starts after a ban mutation (c, b) was
\* acknowledged reports banned = b for c, until the next mutation of c:
\* every list returned reports, for every code that was mutated, the flag of
\* the last mutation of that code.
C33_AvailabilityFollowsTheLastMutation ==
    \A w \in Sequential :
        (Done(w, "avail") /\ req[w].status = 200)
        => \A c \in Registry :
              lastBan[c] # <<>> => Reports(req[w].body[1], c, lastBan[c][1])

\* The last of the requests is an availability request that follows a
\* mutation banning c: it reads the store and reports c as banned.
C33_Witness ==
    \E w \in Sequential, c \in Registry :
        /\ Done(w, "avail")
        /\ req[w].status = 200
        /\ budget = 0
        /\ lastBan[c] = <<TRUE>>
        /\ Reports(req[w].body[1], c, TRUE)
        /\ req[w].calls.dbQuery = 1

\* The flag the Ban Store gives for the code c: the one of its row, and not
\* banned when it has no row.
StoreFlag(c) == HasRow(banRows, c) /\ Cur2BanMap(banRows, c).banned

\* The availability cache entry is absent or agrees with the Ban Store for
\* every code.
CacheAgreesWithStore ==
    availCache = <<>> \/ \A c \in Registry : Reports(availCache[1], c, StoreFlag(c))

\* C34: when an availability request that missed the cache and a ban
\* mutation have both finished, whatever the order of their steps, and every
\* cache operation of the two succeeded (nothing was logged), the
\* availability cache entry is absent or agrees with the Ban Store for every
\* code.
C34_OverlapLeavesNoStaleList ==
    \A w1 \in Workers, w2 \in Workers :
        (/\ Done(w1, "avail") /\ req[w1].status = 200
         /\ req[w1].calls.dbQuery = 1 /\ req[w1].calls.cacheSet = 1
         /\ req[w1].log = ""
         /\ Done(w2, "ban") /\ req[w2].status = 200
         /\ req[w2].calls.cacheDel = 1 /\ req[w2].log = "")
        => CacheAgreesWithStore

\* The fields of a redis hash that differ between two of its states.
ChangedFields(hash, hash2) == {k \in DOMAIN hash : hash[k] # hash2[k]}

\* C35: after a current-rate or timeline request missed the cache and its
\* write-back succeeded (nothing is logged), the entry is stored under the
\* key built from the requested codes: the field the write created is the
\* requested base, or the requested base:second, whatever base the provider
\* named in its response.
C35_WriteBackUsesTheRequestedKey ==
    [][\A w \in Workers :
          /\ (WritesBack(w, "rate") /\ req'[w].log = "")
             => ChangedFields(rateCache, rateCache') = {req[w].base}
          /\ (WritesBack(w, "timeline") /\ req'[w].log = "")
             => ChangedFields(timeCache, timeCache')
                    = {<<req[w].base, req[w].second>>}]_vars

\* C36: when the current-rate flow has fetched a fresh snapshot S for a base
\* that already has a cached snapshot, the write-back is logged as a failure
\* and the request is still answered from S; the write leaves the hash as it
\* was only when it did not reach redis, and otherwise the entry of that
\* base is S and nothing of the old snapshot, the other entries being
\* untouched.
C36_OverwriteReplacesTheSnapshot ==
    [][\A w \in Workers :
          LET S == req[w].fresh[1]
          IN  (WritesBack(w, "rate") /\ rateCache[S.base] # <<>>)
              => /\ req'[w].log = "error in save new rate"
                 /\ req'[w].status = 200
                 /\ req'[w].body = <<ToResultRate(S, req[w].second)>>
                 /\ \/ rateCache' = rateCache
                    \/ rateCache' = [rateCache EXCEPT ![S.base] = <<S>>]]_vars

\* A request has fetched over a cached snapshot of another date and other
\* rates, and the cache holds what it fetched.
C36_Witness ==
    \E w \in Workers :
        /\ Done(w, "rate")
        /\ req[w].stored # <<>>
        /\ req[w].calls.provider = 1
        /\ req[w].calls.cacheSet = 1
        /\ req[w].log = "error in save new rate"
        /\ req[w].fresh[1].base = req[w].stored[1].base
        /\ req[w].fresh[1].date # req[w].stored[1].date
        /\ req[w].fresh[1].rates # req[w].stored[1].rates
        /\ rateCache[req[w].fresh[1].base] = req[w].fresh

\* C37: a timeline cache entry is never refreshed: a timeline request that
\* finds an entry under the key of its pair is answered from that entry, for
\* any period, with no provider and no forecast call (or ends with a server
\* fault when the read fails), and no step overwrites or deletes an entry
\* that the hash of timelines holds.
C37_TimelineEntryIsNeverRefreshed ==
    [][/\ \A w \in Workers :
            LET key == <<req[w].base, req[w].second>>
            IN  (req[w].op = "timeline" /\ req[w].pc = "cacheGet"
                    /\ req'[w] # req[w] /\ timeCache[key] # <<>>)
                => /\ req'[w].pc = "done"
                   /\ req'[w].calls.provider = 0
                   /\ req'[w].calls.forecast = 0
                   /\ \/ req'[w].status = 500
                      \/ /\ req'[w].status = 200
                         /\ req'[w].body =
                              <<TimelineResult(timeCache[key][1],
                                               req[w].start[1], req[w].end[1])>>
       /\ \A k \in DOMAIN timeCache :
            timeCache[k] # <<>> => timeCache'[k] = timeCache[k]]_vars

\* The handler that worker w runs in this step.
StepOp(w) == IF req[w].op = "idle" THEN req'[w].op ELSE req[w].op

\* C38: frame conditions. A step of a ban mutation leaves the rows of the
\* other codes, the hash of point rates and the hash of timelines as they
\* are; a step of a current-rate or timeline request leaves the Ban Store
\* and the availability entry as they are; a request that is answered from
\* the cache (its cache read ends it with status 200) changes no cache entry
\* and no row.
C38_FrameConditions ==
    [][\A w \in Sequential :
          req'[w] # req[w]
          => /\ StepOp(w) = "ban"
                => /\ rateCache' = rateCache
                   /\ timeCache' = timeCache
                   /\ \A c \in Registry \ {req[w].base} :
                         SelectBans(banRows', {c}) = SelectBans(banRows, {c})
             /\ StepOp(w) \in {"rate", "timeline"}
                => /\ banRows' = banRows
                   /\ availCache' = availCache
             /\ (req[w].pc = "cacheGet" /\ req'[w].pc = "done"
                    /\ req'[w].status = 200)
                => /\ availCache' = availCache
                   /\ rateCache' = rateCache
                   /\ timeCache' = timeCache
                   /\ banRows' = banRows]_vars

\* A mutation has gone through its upsert and its invalidation while the
\* hash of timelines held an entry.
C38_Witness ==
    \E w \in Sequential :
        /\ Done(w, "ban")
        /\ req[w].status = 200
        /\ req[w].calls.cacheDel = 1
        /\ HasRow(banRows, req[w].base)
        /\ \E k \in DOMAIN timeCache : timeCache[k] # <<>>

\* C39: the timeline built from a provider response has entries for dates of
\* the response only; for every date on which the response has a value for
\* the requested target, the entry of that date has that value; and a date
\* on which the response has no value for the target gets no entry with the
\* rate 0.
C39_MissingDayRateIsNotZero ==
    [][\A w \in Sequential :
          (req[w].op = "timeline" /\ req[w].pc = "provider"
              /\ req'[w].pc = "forecast")
          => \A resp \in TimelineResponses(req[w]) :
                (resp.val # <<>>
                    /\ req'[w] = TimelineAfterFetch(Called(req[w], "provider"), resp))
                => LET given == resp.val[1].rates
                       built == req'[w].fresh[1].rates
                   IN  /\ DOMAIN built \subseteq DOMAIN given
                       /\ \A d \in DOMAIN given :
                             IF req[w].second \in DOMAIN given[d]
                             THEN d \in DOMAIN built
                                  /\ built[d] = given[d][req[w].second]
                             ELSE ~(d \in DOMAIN built /\ built[d] = 0)]_vars

====
